---- MODULE Spec2Model ----
(***************************************************************************)
(* A model of the open-wallpaper client core: the favorites service        *)
(* (services/favorites.service.ts), the cached data service                *)
(* (services/firestore.service.ts) and the screens that call them.         *)
(*                                                                         *)
(* Every asynchronous function is a task with a call stack.  The event     *)
(* loop runs one task at a time (variable cur) until that task suspends on *)
(* a real await: a request to the local blob store (AsyncStorage) or to    *)
(* the remote document store.  A request is then executed by the store in  *)
(* a step of its own (StorageExec, RemoteExec), in any order and with a    *)
(* nondeterministic failure, and the task's continuation runs in a later   *)
(* step.  Each top-level call is started from its own event-loop task, so  *)
(* an await on an already settled promise continues before any other task  *)
(* runs.  Time is counted in minutes.                                      *)
(***************************************************************************)
EXTENDS Integers, Sequences, FiniteSets, TLC

\* ---------------------------------------------------------------- bounds
NumFavIds == 2
NumIds == 2
MaxTime == 10
MaxImportLen == 1
MaxUpdates == 1
NumDocs == 3
MaxLimit == 2
MaxEntries == 1

\* ------------------------------------------------------ program constants
\* favorites.service.ts: const CACHE_DURATION = 5 * 60 * 1000 (minutes here)
CACHE_DURATION == 5
\* firestore.service.ts: CACHE_TTL.wallpapers = 5 * 60 * 1000
TTL_wallpapers == 5
\* firestore.service.ts: CACHE_TTL.categories = 10 * 60 * 1000
TTL_categories == 10
\* firestore.service.ts: CACHE_TTL.featured = 3 * 60 * 1000
TTL_featured == 3
\* search results: 2 * 60 * 1000
TTL_search == 2

\* Strings are sequences of characters, so that String.prototype.includes
\* and template literals can be computed.
FAVORITES_KEY == <<"o","w","p","_","f","a","v","o","r","i","t","e","s">>
SCREEN_FAVORITES_KEY == <<"f","a","v","o","r","i","t","e","s">>
StorageKeys == {FAVORITES_KEY, SCREEN_FAVORITES_KEY}

IdPool ==
  << <<"4","2">>, <<"4","2","0">>, <<"7">>, <<"4","7">>, <<"1">> >>
Ids == {IdPool[i] : i \in 1..NumIds}
FavIds == {IdPool[i] : i \in 1..NumFavIds}
DocIds == {IdPool[i] : i \in 1..NumDocs}
EmptyString == <<>>

Tasks == {"t1", "t2"}
NoTask == "none"

VARIABLES
  now,              \* Date.now(), in minutes
  storage,          \* AsyncStorage: key -> [present, json]
  favoritesCache,   \* favorites.service.ts: let favoritesCache
  cacheTimestamp,   \* favorites.service.ts: let cacheTimestamp
  cache,            \* firestore.service.ts: const cache = new Map()
  remote,           \* the OWP_wallpapers collection of the document store
  probe,            \* the last direct call of cacheUtils and its result
  isFavorite,       \* detail screen: useState(false), per shown wallpaper
  downloadState,    \* useDownloadManager: useState<DownloadState>
  downloadRef,      \* useRef: the task whose DownloadResumable it holds
  abortController,  \* useRef: the task whose AbortController it holds
  aborted,          \* the AbortControllers whose signal is aborted
  transfer,         \* per task: the native transfer of its DownloadResumable
  report,           \* per task: what its downloadWallpaper call has reported
  stack,            \* per task: the call stack of async frames
  io,               \* per task: the request it awaits and its outcome
  ret,              \* per task: what the last finished callee returned
  top,              \* per task: the top-level call it runs or last ran
  hist,             \* per task: bookkeeping of the top-level call
  cur               \* the task whose synchronous code is running

HookVars == << downloadState, downloadRef, abortController, aborted,
              transfer, report >>

vars == << now, storage, favoritesCache, cacheTimestamp, cache, remote,
           probe, isFavorite, HookVars, stack, io, ret, top, hist, cur >>

\* ------------------------------------------------------------ sequences
Includes(list, x) == \E i \in 1..Len(list) : list[i] = x

RECURSIVE Without(_, _)
Without(list, x) ==
  IF list = <<>> THEN <<>>
  ELSE IF Head(list) = x THEN Without(Tail(list), x)
       ELSE <<Head(list)>> \o Without(Tail(list), x)

RECURSIVE SeqsUpTo(_, _)
SeqsUpTo(S, n) ==
  IF n = 0 THEN {<<>>}
  ELSE LET shorter == SeqsUpTo(S, n - 1)
       IN shorter \cup {Append(s, x) : s \in shorter, x \in S}

\* ------------------------------------------------------------ blob store
NoBlob == [present |-> FALSE, json |-> <<>>]
\* JSON.stringify(list)
JSONstringify(list) == [present |-> TRUE, json |-> list]
\* stored ? JSON.parse(stored) : []
ParseOrEmpty(blob) == IF blob.present THEN blob.json ELSE <<>>

\* ------------------------------------------------------------ values
NoDoc == [exists |-> FALSE, id |-> <<>>, downloads |-> 0, views |-> 0]
\* { id: docSnap.id, ...docSnap.data() }
Doc(id, downloads, views) ==
  [exists |-> TRUE, id |-> id, downloads |-> downloads, views |-> views]
\* A cached payload: a document (or null), a list of documents, or a count.
DocPayload(d) == [kind |-> "doc", doc |-> d, list |-> <<>>, count |-> 0]
NoProbe == [op |-> "none", key |-> <<>>, hit |-> FALSE,
            data |-> DocPayload(NoDoc), at |-> 0, replaced |-> FALSE,
            removed |-> {}]
\* A request in flight: a storage call (key, blob), a document read or
\* update (key), or a query (key, limit, after); a search has a second
\* query in flight (st2, list2).
NoIo == [st |-> "none", op |-> "none", key |-> <<>>, blob |-> NoBlob,
         data |-> NoDoc, limit |-> 0, after |-> NoDoc, list |-> <<>>,
         count |-> 0, st2 |-> "none", list2 |-> <<>>]
NoRet == [kind |-> "none", b |-> FALSE, list |-> <<>>, data |-> NoDoc,
          count |-> 0]
RetBool(b) == [NoRet EXCEPT !.kind = "value", !.b = b]
RetList(l) == [NoRet EXCEPT !.kind = "value", !.list = l]
RetData(d) == [NoRet EXCEPT !.kind = "value", !.b = d.exists, !.data = d]
RetVoid == [NoRet EXCEPT !.kind = "value"]
RetThrow == [NoRet EXCEPT !.kind = "throw"]
\* a count; and { wallpapers, pagination: { lastDoc, hasMore } }
RetCount(n) == [NoRet EXCEPT !.kind = "value", !.count = n]
RetPage(wallpapers, lastDoc, hasMore) ==
  [NoRet EXCEPT !.kind = "value", !.list = wallpapers, !.data = lastDoc,
                !.b = hasMore]

NoMirror == [isNull |-> TRUE, v |-> <<>>]
Mirror(l) == [isNull |-> FALSE, v |-> l]

Frame(fn, id, list) ==
  [fn |-> fn, pc |-> "start", id |-> id, now |-> 0, list |-> list,
   fav |-> FALSE, aux |-> <<>>]

NoTop == [fn |-> "none", id |-> <<>>, list |-> <<>>]
\* What a top-level call found when it started (pre), what the task's previous
\* call was (prev), and what the call has done so far.
EmptyCache == [k \in {} |-> 0]
NoPre == [blob |-> NoBlob, mirror |-> NoMirror, ts |-> 0, now |-> 0,
          cache |-> EmptyCache]
NoPrev == [fn |-> "none", id |-> <<>>, blob |-> NoBlob, rerr |-> FALSE,
           list |-> <<>>, at |-> 0, nerr |-> FALSE, ret |-> NoRet,
           session |-> FALSE, seen |-> <<>>]
NoHist == [alone |-> FALSE, wrote |-> FALSE, read |-> FALSE, rerr |-> FALSE,
           werr |-> FALSE, nerr |-> FALSE, uerr |-> FALSE, asked |-> FALSE,
           nok |-> FALSE, dup |-> FALSE, pre |-> NoPre, prev |-> NoPrev]

Running(p) == stack[p] # <<>>
Finished(p) == stack[p] = <<>> /\ top[p].fn # "none"
TopFrame(p) == stack[p][Len(stack[p])]
At(p, fn, pc) ==
  /\ Running(p)
  /\ TopFrame(p).fn = fn
  /\ TopFrame(p).pc = pc

\* The stack of p with its top frame replaced, popped, or with a callee pushed
\* on a top frame that moves to pc.
SetTop(p, f) == [stack EXCEPT ![p] = [@ EXCEPT ![Len(@)] = f]]
Pop(p) == [stack EXCEPT ![p] = SubSeq(@, 1, Len(@) - 1)]
PushOn(p, pc, callee) ==
  [stack EXCEPT ![p] = Append([@ EXCEPT ![Len(@)].pc = pc], callee)]

\* ------------------------------------------------------------ task steps
Req(op, key, blob) ==
  [NoIo EXCEPT !.st = "req", !.op = op, !.key = key, !.blob = blob]
IsWrite(req) == req.op \in {"setItem", "removeItem"}
IsStorage(req) == req.op \in {"getItem", "setItem", "removeItem"}
\* the calls of expo-file-system and expo-media-library
NativeOps == {"requestPermissionsAsync", "downloadAsync", "pauseAsync",
              "getInfoAsync", "createAssetAsync", "getAlbumAsync",
              "createAlbumAsync", "addAssetsToAlbumAsync", "deleteAsync"}
IsNative(req) == req.op \in NativeOps

\* The running callee returns r to its caller; a top-level call that returns
\* ends the task.
Returns(p, r) ==
  /\ stack' = Pop(p)
  /\ ret' = [ret EXCEPT ![p] = r]
  /\ io' = [io EXCEPT ![p] = NoIo]
  /\ cur' = IF Len(stack[p]) = 1 THEN NoTask ELSE p
  /\ UNCHANGED << top, hist >>

\* The running function awaits a request: the task leaves the event loop.
Suspends(p, f, req) ==
  /\ stack' = SetTop(p, f)
  /\ io' = [io EXCEPT ![p] = req]
  /\ ret' = [ret EXCEPT ![p] = NoRet]
  /\ cur' = NoTask
  /\ hist' = [hist EXCEPT ![p].wrote = @ \/ IsWrite(req),
                          ![p].read = @ \/ req.op = "getItem",
                          ![p].asked = @ \/ ~IsStorage(req)]
  /\ UNCHANGED top

\* The running function calls an async function and awaits it.
Calls(p, pc, callee) ==
  /\ stack' = PushOn(p, pc, callee)
  /\ ret' = [ret EXCEPT ![p] = NoRet]
  /\ io' = [io EXCEPT ![p] = NoIo]
  /\ cur' = p
  /\ UNCHANGED << top, hist >>

\* The running function goes on to pc without suspending.
Continues(p, f) ==
  /\ stack' = SetTop(p, f)
  /\ ret' = [ret EXCEPT ![p] = NoRet]
  /\ io' = [io EXCEPT ![p] = NoIo]
  /\ cur' = p
  /\ UNCHANGED << top, hist >>

\* Synchronous code of p at (fn, pc); and p suspended at (fn, pc) with its
\* request settled, picked up by the idle event loop.
Ready(p, fn, pc) == cur = p /\ At(p, fn, pc)
Settled(p, fn, pc) ==
  /\ cur = NoTask
  /\ At(p, fn, pc)
  /\ io[p].st \in {"ok", "err"}
  /\ io[p].st2 # "req"

\* The arguments of a data service call after its id: limitCount, then the
\* pagination cursor (lastDoc) or the excluded id.
ArgLimit(f) == f.list[1]
ArgCursor(f) == f.list[2]
ArgExclude(f) == f.list[2]

\* What the next call remembers of a completed getWallpapersByCategory: its
\* arguments and result, and, when it began or continued a scroll session
\* (no cursor, or the cursor and category of the page before it, which was
\* full), the pages of the session before it.
Continued(p) ==
  /\ hist[p].prev.fn = top[p].fn
  /\ hist[p].prev.session
  /\ hist[p].prev.id = top[p].id
  /\ ArgLimit(hist[p].prev) = ArgLimit(top[p])
  /\ hist[p].prev.ret.b
  /\ hist[p].prev.ret.data = ArgCursor(top[p])
PagePrev(p) ==
  [NoPrev EXCEPT
     !.fn = top[p].fn, !.id = top[p].id, !.list = top[p].list,
     !.at = hist[p].pre.now, !.nerr = hist[p].nerr, !.ret = ret[p],
     !.session = ~hist[p].nerr
                   /\ (~ArgCursor(top[p]).exists \/ Continued(p)),
     !.seen = IF ~ArgCursor(top[p]).exists THEN <<>>
              ELSE IF Continued(p)
              THEN hist[p].prev.seen \o hist[p].prev.ret.list
              ELSE <<>>]

\* A screen handler or effect starts the top-level call fn(id) / fn(list).
Persisted == storage[FAVORITES_KEY]
Start(p, fn, id, list) ==
  /\ cur = NoTask
  /\ ~Running(p)
  /\ stack' = [stack EXCEPT ![p] = << Frame(fn, id, list) >>]
  /\ top' = [q \in Tasks |->
              IF q = p THEN [fn |-> fn, id |-> id, list |-> list]
              ELSE IF Running(q) THEN top[q] ELSE NoTop]
  /\ ret' = [q \in Tasks |-> IF q # p /\ Running(q) THEN ret[q] ELSE NoRet]
  /\ io' = [io EXCEPT ![p] = NoIo]
  /\ cur' = p
  /\ hist' = [q \in Tasks |->
               IF q = p
               THEN [alone |-> \A r \in Tasks \ {p} : ~Running(r),
                     wrote |-> FALSE,
                     read |-> FALSE,
                     rerr |-> FALSE,
                     werr |-> FALSE,
                     nerr |-> FALSE,
                     uerr |-> FALSE,
                     asked |-> FALSE,
                     nok |-> FALSE,
                     dup |-> FALSE,
                     pre |-> [blob |-> Persisted, mirror |-> favoritesCache,
                              ts |-> cacheTimestamp, now |-> now,
                              cache |-> cache],
                     prev |-> IF hist[p].alone /\ ret[p].kind = "value"
                                 /\ top[p].fn \in {"toggleFavorite",
                                                   "clearFavorites"}
                              THEN [NoPrev EXCEPT
                                      !.fn = top[p].fn, !.id = top[p].id,
                                      !.blob = hist[p].pre.blob,
                                      !.rerr = hist[p].rerr]
                              ELSE IF hist[p].alone /\ Finished(p)
                                      /\ top[p].fn = "getWallpapersByCategory"
                              THEN PagePrev(p)
                              ELSE NoPrev]
               ELSE NoHist]

FavVars == << storage, favoritesCache, cacheTimestamp >>
DataVars == << cache, remote, probe >>

\* ------------------------------------------------------------ AsyncStorage
\* The blob store executes the request task p awaits; any request may fail,
\* and a failed request changes nothing.
StorageExec(p) ==
  /\ io[p].st = "req"
  /\ io[p].op \in {"getItem", "setItem", "removeItem"}
  /\ \E ok \in BOOLEAN :
       /\ io' = [io EXCEPT ![p].st = IF ok THEN "ok" ELSE "err",
                           ![p].blob = IF ok /\ io[p].op = "getItem"
                                       THEN storage[io[p].key] ELSE @]
       /\ storage' = IF ok /\ io[p].op = "setItem"
                     THEN [storage EXCEPT ![io[p].key] = io[p].blob]
                     ELSE IF ok /\ io[p].op = "removeItem"
                     THEN [storage EXCEPT ![io[p].key] = NoBlob]
                     ELSE storage
       /\ hist' = [hist EXCEPT
                    ![p].rerr = @ \/ (~ok /\ io[p].op = "getItem"),
                    ![p].werr = @ \/ (~ok /\ io[p].op # "getItem")]
  /\ UNCHANGED << now, favoritesCache, cacheTimestamp, DataVars,
                  isFavorite, HookVars, stack, ret, top, cur >>

\* Mutant: a mirror still served when exactly CACHE_DURATION old.
MirrorFreshInclusive(t) ==
  /\ ~favoritesCache.isNull
  /\ (t - cacheTimestamp) <= CACHE_DURATION

\* ------------------------------------------------- FavoritesService
\* favoritesCache && (now - cacheTimestamp) < CACHE_DURATION
MirrorFresh(t) ==
  /\ ~favoritesCache.isNull
  /\ (t - cacheTimestamp) < CACHE_DURATION

\* getFavorites, up to its await of AsyncStorage.getItem
GetFavoritesEnter(p) ==
  /\ Ready(p, "getFavorites", "start")
  /\ IF MirrorFresh(now)
     THEN Returns(p, RetList(favoritesCache.v))
     ELSE Suspends(p, [TopFrame(p) EXCEPT !.pc = "await", !.now = now],
                   Req("getItem", FAVORITES_KEY, NoBlob))
  /\ UNCHANGED << now, FavVars, DataVars, isFavorite, HookVars >>

\* Mutant: getFavorites without its catch, the read failure is rethrown.
GetFavoritesResumeRethrows(p) ==
  /\ Settled(p, "getFavorites", "await")
  /\ IF io[p].st = "ok"
     THEN LET favorites == ParseOrEmpty(io[p].blob)
          IN /\ favoritesCache' = Mirror(favorites)
             /\ cacheTimestamp' = TopFrame(p).now
             /\ Returns(p, RetList(favorites))
     ELSE /\ Returns(p, RetThrow)
          /\ UNCHANGED << favoritesCache, cacheTimestamp >>
  /\ UNCHANGED << now, storage, DataVars, isFavorite, HookVars >>

\* getFavorites, from the settled getItem: refresh the mirror, or catch
GetFavoritesResume(p) ==
  /\ Settled(p, "getFavorites", "await")
  /\ IF io[p].st = "ok"
     THEN LET favorites == ParseOrEmpty(io[p].blob)
          IN /\ favoritesCache' = Mirror(favorites)
             /\ cacheTimestamp' = TopFrame(p).now
             /\ Returns(p, RetList(favorites))
     ELSE /\ Returns(p, RetList(<<>>))
          /\ UNCHANGED << favoritesCache, cacheTimestamp >>
  /\ UNCHANGED << now, storage, DataVars, isFavorite, HookVars >>

\* isFavorite(wallpaperId)
IsFavoriteEnter(p) ==
  /\ Ready(p, "isFavorite", "start")
  /\ Calls(p, "got", Frame("getFavorites", <<>>, <<>>))
  /\ UNCHANGED << now, FavVars, DataVars, isFavorite, HookVars >>

IsFavoriteReturn(p) ==
  /\ Ready(p, "isFavorite", "got")
  /\ Returns(p, RetBool(Includes(ret[p].list, TopFrame(p).id)))
  /\ UNCHANGED << now, FavVars, DataVars, isFavorite, HookVars >>

\* Mutant: the new favorite is put first, [wallpaperId, ...favorites].
NewFavoritesPrepend(favorites, wallpaperId) ==
  IF Includes(favorites, wallpaperId)
  THEN Without(favorites, wallpaperId)
  ELSE << wallpaperId >> \o favorites

\* currentlyFavorite ? favorites.filter(id => id !== wallpaperId)
\*                   : [...favorites, wallpaperId]
NewFavorites(favorites, wallpaperId) ==
  IF Includes(favorites, wallpaperId)
  THEN Without(favorites, wallpaperId)
  ELSE Append(favorites, wallpaperId)

\* toggleFavorite(wallpaperId)
ToggleFavoriteEnter(p) ==
  /\ Ready(p, "toggleFavorite", "start")
  /\ Calls(p, "got", Frame("getFavorites", <<>>, <<>>))
  /\ UNCHANGED << now, FavVars, DataVars, isFavorite, HookVars >>

ToggleFavoriteSave(p) ==
  /\ Ready(p, "toggleFavorite", "got")
  /\ LET favorites == ret[p].list
         f == TopFrame(p)
         newFavorites == NewFavorites(favorites, f.id)
     IN Suspends(p, [f EXCEPT !.pc = "await", !.list = newFavorites,
                              !.fav = Includes(favorites, f.id)],
                 Req("setItem", FAVORITES_KEY, JSONstringify(newFavorites)))
  /\ UNCHANGED << now, FavVars, DataVars, isFavorite, HookVars >>

\* Mutant: the mirror is updated before the write is known to have succeeded.
ToggleFavoriteResumeEager(p) ==
  /\ Settled(p, "toggleFavorite", "await")
  /\ favoritesCache' = Mirror(TopFrame(p).list)
  /\ cacheTimestamp' = now
  /\ Returns(p, IF io[p].st = "ok" THEN RetBool(~TopFrame(p).fav)
                ELSE RetThrow)
  /\ UNCHANGED << now, storage, DataVars, isFavorite, HookVars >>

ToggleFavoriteResume(p) ==
  /\ Settled(p, "toggleFavorite", "await")
  /\ IF io[p].st = "ok"
     THEN /\ favoritesCache' = Mirror(TopFrame(p).list)
          /\ cacheTimestamp' = now
          /\ Returns(p, RetBool(~TopFrame(p).fav))
     ELSE /\ Returns(p, RetThrow)
          /\ UNCHANGED << favoritesCache, cacheTimestamp >>
  /\ UNCHANGED << now, storage, DataVars, isFavorite, HookVars >>

\* addFavorite(wallpaperId)
AddFavoriteEnter(p) ==
  /\ Ready(p, "addFavorite", "start")
  /\ Calls(p, "toggled", Frame("toggleFavorite", TopFrame(p).id, <<>>))
  /\ UNCHANGED << now, FavVars, DataVars, isFavorite, HookVars >>

AddFavoriteReturn(p) ==
  /\ Ready(p, "addFavorite", "toggled")
  /\ Returns(p, IF ret[p].kind = "throw" THEN RetThrow
                ELSE RetBool(ret[p].b))
  /\ UNCHANGED << now, FavVars, DataVars, isFavorite, HookVars >>

\* removeFavorite(wallpaperId)
RemoveFavoriteEnter(p) ==
  /\ Ready(p, "removeFavorite", "start")
  /\ Calls(p, "got", Frame("getFavorites", <<>>, <<>>))
  /\ UNCHANGED << now, FavVars, DataVars, isFavorite, HookVars >>

\* Mutant: removeFavorite without its membership test.
RemoveFavoriteCheckSkipped(p) ==
  /\ Ready(p, "removeFavorite", "got")
  /\ Calls(p, "toggled", Frame("toggleFavorite", TopFrame(p).id, <<>>))
  /\ UNCHANGED << now, FavVars, DataVars, isFavorite, HookVars >>

RemoveFavoriteCheck(p) ==
  /\ Ready(p, "removeFavorite", "got")
  /\ IF ~Includes(ret[p].list, TopFrame(p).id)
     THEN Returns(p, RetBool(TRUE))
     ELSE Calls(p, "toggled", Frame("toggleFavorite", TopFrame(p).id, <<>>))
  /\ UNCHANGED << now, FavVars, DataVars, isFavorite, HookVars >>

RemoveFavoriteReturn(p) ==
  /\ Ready(p, "removeFavorite", "toggled")
  /\ Returns(p, IF ret[p].kind = "throw" THEN RetThrow
                ELSE RetBool(~ret[p].b))
  /\ UNCHANGED << now, FavVars, DataVars, isFavorite, HookVars >>

\* clearFavorites()
ClearFavoritesEnter(p) ==
  /\ Ready(p, "clearFavorites", "start")
  /\ Suspends(p, [TopFrame(p) EXCEPT !.pc = "await"],
              Req("removeItem", FAVORITES_KEY, NoBlob))
  /\ UNCHANGED << now, FavVars, DataVars, isFavorite, HookVars >>

\* Mutant: clearFavorites that erases the list and leaves the mirror alone.
ClearFavoritesResumeKeepsMirror(p) ==
  /\ Settled(p, "clearFavorites", "await")
  /\ Returns(p, IF io[p].st = "ok" THEN RetVoid ELSE RetThrow)
  /\ UNCHANGED << now, FavVars, DataVars, isFavorite, HookVars >>

ClearFavoritesResume(p) ==
  /\ Settled(p, "clearFavorites", "await")
  /\ IF io[p].st = "ok"
     THEN /\ favoritesCache' = Mirror(<<>>)
          /\ cacheTimestamp' = now
          /\ Returns(p, RetVoid)
     ELSE /\ Returns(p, RetThrow)
          /\ UNCHANGED << favoritesCache, cacheTimestamp >>
  /\ UNCHANGED << now, storage, DataVars, isFavorite, HookVars >>

\* favoriteIds.filter(id => typeof id === 'string' && id.length > 0)
RECURSIVE ValidIds(_)
ValidIds(favoriteIds) ==
  IF favoriteIds = <<>> THEN <<>>
  ELSE IF Len(Head(favoriteIds)) > 0
       THEN <<Head(favoriteIds)>> \o ValidIds(Tail(favoriteIds))
       ELSE ValidIds(Tail(favoriteIds))

\* importFavorites(favoriteIds)
ImportFavoritesEnter(p) ==
  /\ Ready(p, "importFavorites", "start")
  /\ LET validIds == ValidIds(TopFrame(p).list)
     IN Suspends(p, [TopFrame(p) EXCEPT !.pc = "await", !.list = validIds],
                 Req("setItem", FAVORITES_KEY, JSONstringify(validIds)))
  /\ UNCHANGED << now, FavVars, DataVars, isFavorite, HookVars >>

ImportFavoritesResume(p) ==
  /\ Settled(p, "importFavorites", "await")
  /\ IF io[p].st = "ok"
     THEN /\ favoritesCache' = Mirror(TopFrame(p).list)
          /\ cacheTimestamp' = now
          /\ Returns(p, RetVoid)
     ELSE /\ Returns(p, RetThrow)
          /\ UNCHANGED << favoritesCache, cacheTimestamp >>
  /\ UNCHANGED << now, storage, DataVars, isFavorite, HookVars >>

\* invalidateCache(): synchronous, called between tasks
InvalidateFavoritesCache ==
  /\ cur = NoTask
  /\ favoritesCache' = NoMirror
  /\ cacheTimestamp' = 0
  /\ hist' = [q \in Tasks |-> NoHist]
  /\ top' = [q \in Tasks |-> IF Running(q) THEN top[q] ELSE NoTop]
  /\ ret' = [q \in Tasks |-> IF Running(q) THEN ret[q] ELSE NoRet]
  /\ UNCHANGED << now, storage, DataVars, isFavorite, HookVars, stack, io, cur >>

\* ------------------------------------------------------------ cacheUtils
\* `wallpaper_${id}`
WALLPAPER_PREFIX == <<"w","a","l","l","p","a","p","e","r","_">>
WallpaperKey(id) == WALLPAPER_PREFIX \o id

\* Mutant: a pattern that has to be the whole key.
StrEquals(key, pattern) == key = pattern

\* key.includes(pattern)
StrIncludes(key, pattern) ==
  \E i \in 1..(Len(key) + 1) :
    /\ i + Len(pattern) - 1 <= Len(key)
    /\ SubSeq(key, i, i + Len(pattern) - 1) = pattern

\* Mutant: set that keeps the entry the key already has.
CacheSetKeepsPrior(c, key, data, ttl, t) ==
  [k \in DOMAIN c \cup {key} |->
     IF k \in DOMAIN c THEN c[k]
     ELSE [data |-> data, timestamp |-> t, ttl |-> ttl]]

\* cacheUtils.set(key, data, ttl) at Date.now() = t
CacheSet(c, key, data, ttl, t) ==
  [k \in DOMAIN c \cup {key} |->
     IF k = key THEN [data |-> data, timestamp |-> t, ttl |-> ttl]
     ELSE c[k]]

\* Mutant: an entry that expires as soon as its ttl is reached.
CacheExpiredAtTtl(entry, t) == t - entry.timestamp >= entry.ttl

\* Date.now() - cached.timestamp > cached.ttl
CacheExpired(entry, t) == t - entry.timestamp > entry.ttl

\* cacheUtils.get(key) at Date.now() = t: whether it returns the data, and
\* the map it leaves (an expired entry is deleted by the lookup).
CacheHit(c, key, t) == key \in DOMAIN c /\ ~CacheExpired(c[key], t)
\* Mutant: a lookup that sweeps every expired entry out of the map.
CacheAfterGetSweeps(c, key, t) ==
  [k \in {x \in DOMAIN c : ~CacheExpired(c[x], t)} |-> c[k]]

CacheAfterGet(c, key, t) ==
  IF key \in DOMAIN c /\ CacheExpired(c[key], t)
  THEN [k \in DOMAIN c \ {key} |-> c[k]]
  ELSE c

\* getCacheStats(): { size: cache.size, keys: Array.from(cache.keys()) }
GetCacheStats(c) == [size |-> Cardinality(DOMAIN c), keys |-> DOMAIN c]

\* cacheUtils.invalidate(pattern)
CacheInvalidate(c, pattern) ==
  [k \in {x \in DOMAIN c : ~StrIncludes(x, pattern)} |-> c[k]]

\* ------------------------------------------------------------ the dataset
\* The fields of the OWP_wallpapers documents that the queries filter and
\* order on do not change while the client runs; they are given per id.
\* downloads and views are the counters of the document (remote).
PoolIndex(id) == CHOOSE i \in 1..Len(IdPool) : IdPool[i] = id
CATEGORY_A == <<"a">>
CATEGORY_B == <<"b">>
CategoryIds == {CATEGORY_A, CATEGORY_B}
CategoryOf(id) == IF PoolIndex(id) <= 3 THEN CATEGORY_A ELSE CATEGORY_B
IsFeatured(id) == PoolIndex(id) \in {1, 3, 4}
CreatedAt(id) == PoolIndex(id)
Title(id) == << <<"A","B">>, <<"A">>, <<"B">>, <<"B","A">>, <<"A">> >>[PoolIndex(id)]
Tags(id) == << {<<"a">>}, {<<"b">>}, {<<"a">>, <<"b">>}, {}, {<<"b">>} >>[PoolIndex(id)]

\* The OWP_categories collection, by priority; a third id has no document.
CategoriesByPriority == << CATEGORY_B, CATEGORY_A >>
CATEGORY_NONE == <<"z">>

\* Characters in code-unit order, and the order of strings built on it.
Alphabet ==
  <<" ","0","1","2","3","4","5","6","7","8","9","A","B","_","a","b","z">>
CharRank(ch) == CHOOSE i \in 1..Len(Alphabet) : Alphabet[i] = ch
RECURSIVE StrLess(_, _)
StrLess(a, b) ==
  IF b = <<>> THEN FALSE
  ELSE IF a = <<>> THEN TRUE
  ELSE IF Head(a) # Head(b) THEN CharRank(Head(a)) < CharRank(Head(b))
  ELSE StrLess(Tail(a), Tail(b))
StartsWith(s, prefix) ==
  Len(prefix) <= Len(s) /\ SubSeq(s, 1, Len(prefix)) = prefix

\* toUpperCase, toLowerCase, trim
UpperChar(ch) == IF ch = "a" THEN "A" ELSE IF ch = "b" THEN "B" ELSE ch
LowerChar(ch) == IF ch = "A" THEN "a" ELSE IF ch = "B" THEN "b" ELSE ch
ToUpperCase(s) == [i \in 1..Len(s) |-> UpperChar(s[i])]
ToLowerCase(s) == [i \in 1..Len(s) |-> LowerChar(s[i])]
RECURSIVE TrimStart(_)
TrimStart(s) ==
  IF s # <<>> /\ Head(s) = " " THEN TrimStart(Tail(s)) ELSE s
RECURSIVE TrimEnd(_)
TrimEnd(s) ==
  IF s # <<>> /\ s[Len(s)] = " " THEN TrimEnd(SubSeq(s, 1, Len(s) - 1))
  ELSE s
Trim(s) == TrimEnd(TrimStart(s))

\* searchTerm.trim().toUpperCase(), and the tag looked for
NormalizedTerm(searchTerm) == ToUpperCase(Trim(searchTerm))
TagOf(normalizedTerm) == ToLowerCase(normalizedTerm)

\* `${limitCount}`
DigitOf(n) == Alphabet[n + 2]
RECURSIVE Decimal(_)
Decimal(n) ==
  IF n < 10 THEN << DigitOf(n) >> ELSE Append(Decimal(n \div 10), DigitOf(n % 10))

\* The ids of S by descending key; and the first n elements of a sequence.
RECURSIVE SortDesc(_, _)
SortDesc(S, key) ==
  IF S = {} THEN <<>>
  ELSE LET x == CHOOSE x \in S : \A y \in S : key[y] <= key[x]
       IN << x >> \o SortDesc(S \ {x}, key)
Take(s, n) == SubSeq(s, 1, IF n < Len(s) THEN n ELSE Len(s))

\* Document names and titles ranked in string order; then the order keys of
\* the queries, each ending with the document name as Firestore does.
NameRank(id) == Cardinality({j \in DOMAIN remote : StrLess(j, id)})
TitleRank(id) ==
  Cardinality({j \in DOMAIN remote : StrLess(Title(j), Title(id))})
Radix == Len(IdPool) + 1
ByCreatedAtDesc == [i \in DOMAIN remote |-> CreatedAt(i) * Radix + NameRank(i)]
ByDownloadsDesc(rem) ==
  [i \in DOMAIN rem |-> rem[i].downloads * Radix + NameRank(i)]
ByTitleAsc == [i \in DOMAIN remote |-> 0 - (TitleRank(i) * Radix + NameRank(i))]
ByNameAsc == [i \in DOMAIN remote |-> 0 - NameRank(i)]

\* querySnapshot.docs.map(doc => ({ id: doc.id, ...doc.data() }))
DocsOf(ids, rem) == [i \in 1..Len(ids) |-> rem[ids[i]]]
Existing(rem) == {i \in DOMAIN rem : rem[i].exists}

\* Mutant: startAt, the cursor's document included.
AfterCursorInclusive(ids, key, lastDoc) ==
  IF lastDoc.exists THEN SelectSeq(ids, LAMBDA i : key[i] <= key[lastDoc.id])
  ELSE ids

\* startAfter(lastDoc): the documents ordered after the cursor's document
AfterCursor(ids, key, lastDoc) ==
  IF lastDoc.exists THEN SelectSeq(ids, LAMBDA i : key[i] < key[lastDoc.id])
  ELSE ids

\* The queries of the data service, as the remote store answers them.
QueryFeatured(rem, n) ==
  DocsOf(Take(SortDesc({i \in Existing(rem) : IsFeatured(i)},
                       ByCreatedAtDesc), n), rem)
QueryByCategory(rem, categoryId, n, lastDoc) ==
  DocsOf(Take(AfterCursor(SortDesc({i \in Existing(rem) :
                                      CategoryOf(i) = categoryId},
                                   ByCreatedAtDesc),
                          ByCreatedAtDesc, lastDoc), n), rem)
QueryByDownloads(rem, categoryId, n) ==
  DocsOf(Take(SortDesc({i \in Existing(rem) : CategoryOf(i) = categoryId},
                       ByDownloadsDesc(rem)), n), rem)
QueryPopular(rem, n) ==
  DocsOf(Take(SortDesc(Existing(rem), ByDownloadsDesc(rem)), n), rem)
QueryNew(rem, n) ==
  DocsOf(Take(SortDesc(Existing(rem), ByCreatedAtDesc), n), rem)
QueryCount(rem, categoryId) ==
  Cardinality({i \in Existing(rem) : CategoryOf(i) = categoryId})
QueryTitle(rem, term, n) ==
  DocsOf(Take(SortDesc({i \in Existing(rem) : StartsWith(Title(i), term)},
                       ByTitleAsc), n), rem)
QueryTag(rem, tag, n) ==
  DocsOf(Take(SortDesc({i \in Existing(rem) : tag \in Tags(i)}, ByNameAsc),
              n), rem)
QueryCategories ==
  [i \in 1..Len(CategoriesByPriority) |-> Doc(CategoriesByPriority[i], 0, 0)]

\* ------------------------------------------------------------ Firestore
ReqDoc(op, id) == [NoIo EXCEPT !.st = "req", !.op = op, !.key = id]

\* The remote store serves one request of p: a document read, a query, a
\* count, or updateDoc with increment(1), which rejects when the document
\* does not exist; of a search, its by-title query. The network may fail
\* any request.
IsUpdate(op) == op \in {"updateDownloads", "updateViews"}
CategoryDoc(id) ==
  IF \E i \in 1..Len(CategoriesByPriority) : CategoriesByPriority[i] = id
  THEN Doc(id, 0, 0) ELSE NoDoc
Answer(req, rem) ==
  [req EXCEPT
     !.st = "ok",
     !.data = CASE req.op = "getDoc" -> rem[req.key]
                [] req.op = "getCategoryById" -> CategoryDoc(req.key)
                [] OTHER -> @,
     !.list = CASE req.op = "getFeaturedWallpapers" ->
                     QueryFeatured(rem, req.limit)
                [] req.op = "getAllCategories" -> QueryCategories
                [] req.op = "getRelatedWallpapers" ->
                     QueryByDownloads(rem, req.key, req.limit)
                [] req.op = "getPopularWallpapers" ->
                     QueryPopular(rem, req.limit)
                [] req.op = "getNewWallpapers" -> QueryNew(rem, req.limit)
                [] req.op = "getWallpapersByCategory" ->
                     QueryByCategory(rem, req.key, req.limit, req.after)
                [] req.op = "searchWallpapers" ->
                     QueryTitle(rem, req.key, req.limit)
                [] OTHER -> @,
     !.count = IF req.op = "getWallpapersCountByCategory"
               THEN QueryCount(rem, req.key) ELSE @]

\* two answers holding different records of one document
Differ(a, b) ==
  \E i \in 1..Len(a), j \in 1..Len(b) : a[i].id = b[j].id /\ a[i] # b[j]

RemoteExec(p) ==
  /\ io[p].st = "req"
  /\ ~IsStorage(io[p])
  /\ ~IsNative(io[p])
  /\ \E up \in BOOLEAN :
       LET ok == up /\ (IsUpdate(io[p].op) => remote[io[p].key].exists)
       IN /\ io' = [io EXCEPT ![p] = IF ok THEN Answer(@, remote)
                                     ELSE [@ EXCEPT !.st = "err"]]
          /\ remote' = IF ok /\ io[p].op = "updateDownloads"
                       THEN [remote EXCEPT ![io[p].key].downloads = @ + 1]
                       ELSE IF ok /\ io[p].op = "updateViews"
                       THEN [remote EXCEPT ![io[p].key].views = @ + 1]
                       ELSE remote
          /\ hist' = [hist EXCEPT
                       ![p].nerr = @ \/ (~up /\ ~IsUpdate(io[p].op)),
                       ![p].nok = @ \/ (up /\ ~IsUpdate(io[p].op)),
                       ![p].uerr = @ \/ (~ok /\ IsUpdate(io[p].op)),
                       ![p].dup = @ \/ (/\ ok /\ io[p].st2 = "ok"
                                        /\ Differ(Answer(io[p], remote).list,
                                                  io[p].list2))]
  /\ UNCHANGED << now, FavVars, cache, probe, isFavorite, HookVars, stack, ret, top,
                  cur >>

\* The by-tag query of a search, in flight next to its by-title query.
RemoteExecTag(p) ==
  /\ io[p].st2 = "req"
  /\ \E up \in BOOLEAN :
       /\ io' = [io EXCEPT
                  ![p].st2 = IF up THEN "ok" ELSE "err",
                  ![p].list2 = IF up
                               THEN QueryTag(remote, TagOf(io[p].key),
                                             io[p].limit)
                               ELSE @]
       /\ hist' = [hist EXCEPT
                    ![p].nerr = @ \/ ~up,
                    ![p].nok = @ \/ up,
                    ![p].dup = @ \/ (/\ up /\ io[p].st = "ok"
                                     /\ Differ(io[p].list,
                                               QueryTag(remote, TagOf(io[p].key),
                                                        io[p].limit)))]
  /\ UNCHANGED << now, FavVars, DataVars, isFavorite, HookVars, stack, ret, top, cur >>

\* --------------------------------------------------- FirestoreService
\* getWallpaperById, up to its await of getDoc
GetWallpaperByIdEnter(p) ==
  /\ Ready(p, "getWallpaperById", "start")
  /\ LET cacheKey == WallpaperKey(TopFrame(p).id)
     IN /\ cache' = CacheAfterGet(cache, cacheKey, now)
        /\ IF CacheHit(cache, cacheKey, now)
           THEN Returns(p, RetData(cache[cacheKey].data.doc))
           ELSE Suspends(p, [TopFrame(p) EXCEPT !.pc = "await"],
                         ReqDoc("getDoc", TopFrame(p).id))
  /\ UNCHANGED << now, FavVars, remote, probe, isFavorite, HookVars >>

\* Mutant: the document stored only when the key has no entry yet.
GetWallpaperByIdResumeIfAbsent(p) ==
  /\ Settled(p, "getWallpaperById", "await")
  /\ IF io[p].st = "ok" /\ io[p].data.exists
     THEN /\ cache' = CacheSetKeepsPrior(cache, WallpaperKey(TopFrame(p).id),
                                         DocPayload(io[p].data),
                                         TTL_wallpapers, now)
          /\ Returns(p, RetData(io[p].data))
     ELSE /\ Returns(p, RetData(NoDoc))
          /\ UNCHANGED cache
  /\ UNCHANGED << now, FavVars, remote, probe, isFavorite, HookVars >>

\* getWallpaperById, from the settled getDoc
GetWallpaperByIdResume(p) ==
  /\ Settled(p, "getWallpaperById", "await")
  /\ IF io[p].st = "ok" /\ io[p].data.exists
     THEN /\ cache' = CacheSet(cache, WallpaperKey(TopFrame(p).id),
                               DocPayload(io[p].data), TTL_wallpapers, now)
          /\ Returns(p, RetData(io[p].data))
     ELSE /\ Returns(p, RetData(NoDoc))
          /\ UNCHANGED cache
  /\ UNCHANGED << now, FavVars, remote, probe, isFavorite, HookVars >>

\* incrementDownloadCount, up to its await of updateDoc
IncrementDownloadCountEnter(p) ==
  /\ Ready(p, "incrementDownloadCount", "start")
  /\ Suspends(p, [TopFrame(p) EXCEPT !.pc = "await"],
              ReqDoc("updateDownloads", TopFrame(p).id))
  /\ UNCHANGED << now, FavVars, DataVars, isFavorite, HookVars >>

\* Mutant: the invalidation moved out of the try, done on failure too.
IncrementResumeAlways(p, fn) ==
  /\ Settled(p, fn, "await")
  /\ cache' = CacheInvalidate(cache, WallpaperKey(TopFrame(p).id))
  /\ Returns(p, RetBool(io[p].st = "ok"))
  /\ UNCHANGED << now, FavVars, remote, probe, isFavorite, HookVars >>

\* increment*Count, from the settled updateDoc: invalidate and return true,
\* or catch and return false
IncrementResume(p, fn) ==
  /\ Settled(p, fn, "await")
  /\ IF io[p].st = "ok"
     THEN /\ cache' = CacheInvalidate(cache, WallpaperKey(TopFrame(p).id))
          /\ Returns(p, RetBool(TRUE))
     ELSE /\ Returns(p, RetBool(FALSE))
          /\ UNCHANGED cache
  /\ UNCHANGED << now, FavVars, remote, probe, isFavorite, HookVars >>

IncrementDownloadCountResume(p) == IncrementResume(p, "incrementDownloadCount")

\* incrementViewCount, up to its await of updateDoc
IncrementViewCountEnter(p) ==
  /\ Ready(p, "incrementViewCount", "start")
  /\ Suspends(p, [TopFrame(p) EXCEPT !.pc = "await"],
              ReqDoc("updateViews", TopFrame(p).id))
  /\ UNCHANGED << now, FavVars, DataVars, isFavorite, HookVars >>

IncrementViewCountResume(p) == IncrementResume(p, "incrementViewCount")

\* clearCache(): synchronous, called between tasks
ClearCache ==
  /\ cur = NoTask
  /\ cache' = EmptyCache
  /\ hist' = [q \in Tasks |-> NoHist]
  /\ top' = [q \in Tasks |-> IF Running(q) THEN top[q] ELSE NoTop]
  /\ ret' = [q \in Tasks |-> IF Running(q) THEN ret[q] ELSE NoRet]
  /\ UNCHANGED << now, FavVars, remote, probe, isFavorite, HookVars, stack, io, cur >>

\* ------------------------------------------- FirestoreService queries
\* The cache keys: `featured_wallpapers_${limitCount}`, 'all_categories',
\* `category_${id}`, `related_${categoryId}_${excludeId}_${limitCount}`,
\* `popular_wallpapers_${limitCount}`, `new_wallpapers_${limitCount}`,
\* `count_${categoryId}`, `search_${searchTerm.toLowerCase()}_${limitCount}`
FEATURED_PREFIX == <<"f","e","a","t","u","r","e","d","_","w","a","l","l","p","a","p","e","r","s","_">>
ALL_CATEGORIES == <<"a","l","l","_","c","a","t","e","g","o","r","i","e","s">>
CATEGORY_PREFIX == <<"c","a","t","e","g","o","r","y","_">>
RELATED_PREFIX == <<"r","e","l","a","t","e","d","_">>
POPULAR_PREFIX == <<"p","o","p","u","l","a","r","_","w","a","l","l","p","a","p","e","r","s","_">>
NEW_PREFIX == <<"n","e","w","_","w","a","l","l","p","a","p","e","r","s","_">>
COUNT_PREFIX == <<"c","o","u","n","t","_">>
SEARCH_PREFIX == <<"s","e","a","r","c","h","_">>
Underscore == <<"_">>

CacheKeyOf(fn, id, args) ==
  CASE fn = "getFeaturedWallpapers" -> FEATURED_PREFIX \o Decimal(args[1])
    [] fn = "getAllCategories" -> ALL_CATEGORIES
    [] fn = "getCategoryById" -> CATEGORY_PREFIX \o id
    [] fn = "getWallpaperById" -> WallpaperKey(id)
    [] fn = "getRelatedWallpapers" ->
         RELATED_PREFIX \o id \o Underscore \o args[2] \o Underscore
           \o Decimal(args[1])
    [] fn = "getPopularWallpapers" -> POPULAR_PREFIX \o Decimal(args[1])
    [] fn = "getNewWallpapers" -> NEW_PREFIX \o Decimal(args[1])
    [] fn = "getWallpapersCountByCategory" -> COUNT_PREFIX \o id
    [] fn = "searchWallpapers" ->
         SEARCH_PREFIX \o ToLowerCase(id) \o Underscore \o Decimal(args[1])

\* The ttl each function passes to cacheUtils.set
TtlOf(fn) ==
  CASE fn = "getFeaturedWallpapers" -> TTL_featured
    [] fn \in {"getAllCategories", "getCategoryById"} -> TTL_categories
    [] fn = "searchWallpapers" -> TTL_search
    [] OTHER -> TTL_wallpapers

ListPayload(l) == [DocPayload(NoDoc) EXCEPT !.kind = "list", !.list = l]
CountPayload(n) == [DocPayload(NoDoc) EXCEPT !.kind = "count", !.count = n]
\* Mutant: an empty array taken for a miss.
TruthyNonEmpty(data) ==
  /\ data.kind = "list" => data.list # <<>>
  /\ data.kind = "count" => data.count # 0

\* if (cached): a document or an array is truthy, the number 0 is not
Truthy(data) == data.kind # "count" \/ data.count # 0
\* what a caller gets for the cached data
RetCached(data) ==
  CASE data.kind = "doc" -> RetData(data.doc)
    [] data.kind = "list" -> RetList(data.list)
    [] data.kind = "count" -> RetCount(data.count)

ReqQuery(op, key, n, lastDoc) ==
  [NoIo EXCEPT !.st = "req", !.op = op, !.key = key, !.limit = n,
               !.after = lastDoc]

\* The functions that cache a list read with one query.
ListFns == {"getFeaturedWallpapers", "getAllCategories",
            "getRelatedWallpapers", "getPopularWallpapers",
            "getNewWallpapers"}

\* limit(limitCount), and limit(limitCount + 1) of getRelatedWallpapers
QueryLimit(fn, f) ==
  CASE fn = "getRelatedWallpapers" -> ArgLimit(f) + 1
    [] fn = "getAllCategories" -> 0
    [] OTHER -> ArgLimit(f)

\* .filter(wallpaper => wallpaper.id !== excludeId).slice(0, limitCount)
ClientSide(fn, f, docs) ==
  IF fn = "getRelatedWallpapers"
  THEN Take(SelectSeq(docs, LAMBDA d : d.id # ArgExclude(f)), ArgLimit(f))
  ELSE docs

\* A cached list query, up to its await of getDocs
ListQueryEnter(p, fn) ==
  /\ Ready(p, fn, "start")
  /\ LET f == TopFrame(p)
         cacheKey == CacheKeyOf(fn, f.id, f.list)
     IN /\ cache' = CacheAfterGet(cache, cacheKey, now)
        /\ IF CacheHit(cache, cacheKey, now) /\ Truthy(cache[cacheKey].data)
           THEN Returns(p, RetCached(cache[cacheKey].data))
           ELSE Suspends(p, [f EXCEPT !.pc = "await"],
                         ReqQuery(fn, f.id, QueryLimit(fn, f), NoDoc))
  /\ UNCHANGED << now, FavVars, remote, probe, isFavorite, HookVars >>

\* Mutant: a list query without its catch.
ListQueryResumeRethrows(p, fn) ==
  /\ Settled(p, fn, "await")
  /\ LET f == TopFrame(p)
         data == ClientSide(fn, f, io[p].list)
     IN IF io[p].st = "ok"
        THEN /\ cache' = CacheSet(cache, CacheKeyOf(fn, f.id, f.list),
                                  ListPayload(data), TtlOf(fn), now)
             /\ Returns(p, RetList(data))
        ELSE /\ Returns(p, RetThrow)
             /\ UNCHANGED cache
  /\ UNCHANGED << now, FavVars, remote, probe, isFavorite, HookVars >>

\* A cached list query, from the settled getDocs: store and return the
\* data, or catch and return []
ListQueryResume(p, fn) ==
  /\ Settled(p, fn, "await")
  /\ LET f == TopFrame(p)
         data == ClientSide(fn, f, io[p].list)
     IN IF io[p].st = "ok"
        THEN /\ cache' = CacheSet(cache, CacheKeyOf(fn, f.id, f.list),
                                  ListPayload(data), TtlOf(fn), now)
             /\ Returns(p, RetList(data))
        ELSE /\ Returns(p, RetList(<<>>))
             /\ UNCHANGED cache
  /\ UNCHANGED << now, FavVars, remote, probe, isFavorite, HookVars >>

GetFeaturedWallpapersEnter(p) == ListQueryEnter(p, "getFeaturedWallpapers")
GetFeaturedWallpapersResume(p) == ListQueryResume(p, "getFeaturedWallpapers")
GetAllCategoriesEnter(p) == ListQueryEnter(p, "getAllCategories")
GetAllCategoriesResume(p) == ListQueryResume(p, "getAllCategories")
GetRelatedWallpapersEnter(p) == ListQueryEnter(p, "getRelatedWallpapers")
GetRelatedWallpapersResume(p) == ListQueryResume(p, "getRelatedWallpapers")
GetPopularWallpapersEnter(p) == ListQueryEnter(p, "getPopularWallpapers")
GetPopularWallpapersResume(p) == ListQueryResume(p, "getPopularWallpapers")
GetNewWallpapersEnter(p) == ListQueryEnter(p, "getNewWallpapers")
GetNewWallpapersResume(p) == ListQueryResume(p, "getNewWallpapers")

\* getCategoryById, up to its await of getDoc
GetCategoryByIdEnter(p) ==
  /\ Ready(p, "getCategoryById", "start")
  /\ LET f == TopFrame(p)
         cacheKey == CacheKeyOf(f.fn, f.id, f.list)
     IN /\ cache' = CacheAfterGet(cache, cacheKey, now)
        /\ IF CacheHit(cache, cacheKey, now) /\ Truthy(cache[cacheKey].data)
           THEN Returns(p, RetCached(cache[cacheKey].data))
           ELSE Suspends(p, [f EXCEPT !.pc = "await"],
                         ReqQuery(f.fn, f.id, 0, NoDoc))
  /\ UNCHANGED << now, FavVars, remote, probe, isFavorite, HookVars >>

\* getCategoryById, from the settled getDoc
GetCategoryByIdResume(p) ==
  /\ Settled(p, "getCategoryById", "await")
  /\ LET f == TopFrame(p)
     IN IF io[p].st = "ok" /\ io[p].data.exists
        THEN /\ cache' = CacheSet(cache, CacheKeyOf(f.fn, f.id, f.list),
                                  DocPayload(io[p].data), TtlOf(f.fn), now)
             /\ Returns(p, RetData(io[p].data))
        ELSE /\ Returns(p, RetData(NoDoc))
             /\ UNCHANGED cache
  /\ UNCHANGED << now, FavVars, remote, probe, isFavorite, HookVars >>

\* getWallpapersCountByCategory, up to its await of getCountFromServer;
\* the hit test is cached !== null
GetWallpapersCountByCategoryEnter(p) ==
  /\ Ready(p, "getWallpapersCountByCategory", "start")
  /\ LET f == TopFrame(p)
         cacheKey == CacheKeyOf(f.fn, f.id, f.list)
     IN /\ cache' = CacheAfterGet(cache, cacheKey, now)
        /\ IF CacheHit(cache, cacheKey, now)
           THEN Returns(p, RetCached(cache[cacheKey].data))
           ELSE Suspends(p, [f EXCEPT !.pc = "await"],
                         ReqQuery(f.fn, f.id, 0, NoDoc))
  /\ UNCHANGED << now, FavVars, remote, probe, isFavorite, HookVars >>

\* getWallpapersCountByCategory, from the settled count
GetWallpapersCountByCategoryResume(p) ==
  /\ Settled(p, "getWallpapersCountByCategory", "await")
  /\ LET f == TopFrame(p)
     IN IF io[p].st = "ok"
        THEN /\ cache' = CacheSet(cache, CacheKeyOf(f.fn, f.id, f.list),
                                  CountPayload(io[p].count), TtlOf(f.fn), now)
             /\ Returns(p, RetCount(io[p].count))
        ELSE /\ Returns(p, RetCount(0))
             /\ UNCHANGED cache
  /\ UNCHANGED << now, FavVars, remote, probe, isFavorite, HookVars >>

\* getWallpapersByCategory, up to its await of getDocs: no cache lookup;
\* startAfter(lastDoc) when the pagination state has one
GetWallpapersByCategoryEnter(p) ==
  /\ Ready(p, "getWallpapersByCategory", "start")
  /\ LET f == TopFrame(p)
     IN Suspends(p, [f EXCEPT !.pc = "await"],
                 ReqQuery(f.fn, f.id, ArgLimit(f), ArgCursor(f)))
  /\ UNCHANGED << now, FavVars, DataVars, isFavorite, HookVars >>

\* Mutant: the cursor taken from the first document of the page.
LastDocFirst(docs) == IF Len(docs) = 0 THEN NoDoc ELSE docs[1]

\* lastDoc: docs[docs.length - 1] || null
LastDoc(docs) == IF Len(docs) = 0 THEN NoDoc ELSE docs[Len(docs)]

\* Mutant: hasMore computed from a non-empty page.
HasMoreNonEmpty(docs, limitCount) == Len(docs) > 0

\* hasMore: docs.length === limitCount
HasMore(docs, limitCount) == Len(docs) = limitCount

\* getWallpapersByCategory, from the settled getDocs: the page and the new
\* pagination state, or catch and return the empty page
GetWallpapersByCategoryResume(p) ==
  /\ Settled(p, "getWallpapersByCategory", "await")
  /\ LET f == TopFrame(p)
     IN IF io[p].st = "ok"
        THEN Returns(p, RetPage(io[p].list, LastDoc(io[p].list),
                                HasMore(io[p].list, ArgLimit(f))))
        ELSE Returns(p, RetPage(<<>>, NoDoc, FALSE))
  /\ UNCHANGED << now, FavVars, DataVars, isFavorite, HookVars >>

\* results.set(doc.id, ...) on a Map, which keeps the position of a key it
\* already has; the Map is the sequence of its values in insertion order.
\* Mutant: a Map that keeps the record it already has.
MapSetKeepsFirst(results, d) ==
  IF \E i \in 1..Len(results) : results[i].id = d.id
  THEN results
  ELSE Append(results, d)

MapSet(results, d) ==
  IF \E i \in 1..Len(results) : results[i].id = d.id
  THEN [results EXCEPT ![CHOOSE i \in 1..Len(results) : results[i].id = d.id]
                         = d]
  ELSE Append(results, d)
RECURSIVE MapSetAll(_, _)
MapSetAll(results, docs) ==
  IF docs = <<>> THEN results
  ELSE MapSetAll(MapSet(results, Head(docs)), Tail(docs))

\* searchWallpapers, up to its await of Promise.allSettled: a blank term
\* returns [] at once; on a miss both queries are issued
SearchWallpapersEnter(p) ==
  /\ Ready(p, "searchWallpapers", "start")
  /\ LET f == TopFrame(p)
         cacheKey == CacheKeyOf(f.fn, f.id, f.list)
     IN IF Trim(f.id) = EmptyString
        THEN /\ Returns(p, RetList(<<>>))
             /\ UNCHANGED cache
        ELSE /\ cache' = CacheAfterGet(cache, cacheKey, now)
             /\ IF CacheHit(cache, cacheKey, now)
                   /\ Truthy(cache[cacheKey].data)
                THEN Returns(p, RetCached(cache[cacheKey].data))
                ELSE Suspends(p, [f EXCEPT !.pc = "await"],
                              [ReqQuery(f.fn, NormalizedTerm(f.id),
                                        ArgLimit(f), NoDoc)
                                 EXCEPT !.st2 = "req"])
  /\ UNCHANGED << now, FavVars, remote, probe, isFavorite, HookVars >>

\* Mutant: Promise.all in place of Promise.allSettled, one rejection fails
\* the search.
SearchWallpapersResumeAll(p) ==
  /\ Settled(p, "searchWallpapers", "await")
  /\ LET f == TopFrame(p)
         results == MapSetAll(MapSetAll(<<>>, io[p].list), io[p].list2)
         data == Take(results, ArgLimit(f))
     IN IF io[p].st = "ok" /\ io[p].st2 = "ok"
        THEN /\ cache' = CacheSet(cache, CacheKeyOf(f.fn, f.id, f.list),
                                  ListPayload(data), TtlOf(f.fn), now)
             /\ Returns(p, RetList(data))
        ELSE /\ Returns(p, RetList(<<>>))
             /\ UNCHANGED cache
  /\ UNCHANGED << now, FavVars, remote, probe, isFavorite, HookVars >>

\* searchWallpapers, from the two settled queries: merge the fulfilled ones
\* by id, truncate, store and return
SearchWallpapersResume(p) ==
  /\ Settled(p, "searchWallpapers", "await")
  /\ LET f == TopFrame(p)
         byTitle == IF io[p].st = "ok" THEN io[p].list ELSE <<>>
         byTag == IF io[p].st2 = "ok" THEN io[p].list2 ELSE <<>>
         results == MapSetAll(MapSetAll(<<>>, byTitle), byTag)
         data == Take(results, ArgLimit(f))
     IN /\ cache' = CacheSet(cache, CacheKeyOf(f.fn, f.id, f.list),
                             ListPayload(data), TtlOf(f.fn), now)
        /\ Returns(p, RetList(data))
  /\ UNCHANGED << now, FavVars, remote, probe, isFavorite, HookVars >>

\* ------------------------------------------- cacheUtils, called directly
UtilKeys == {WallpaperKey(i) : i \in Ids}
UtilValues == {DocPayload(Doc(IdPool[1], n, 0)) : n \in 0..MaxUpdates}
CacheTtls == {TTL_search, TTL_featured, TTL_wallpapers, TTL_categories}

CacheUtilsSet(key, data, ttl) ==
  /\ cur = NoTask
  /\ cache' = CacheSet(cache, key, data, ttl, now)
  /\ probe' = [op |-> "set", key |-> key, hit |-> FALSE, data |-> data,
               at |-> now,
               replaced |-> key \in DOMAIN cache /\ cache[key].data # data,
               removed |-> {}]
  /\ UNCHANGED << now, FavVars, remote, isFavorite, HookVars, stack, io, ret, top,
                  hist, cur >>

CacheUtilsGet(key) ==
  /\ cur = NoTask
  /\ cache' = CacheAfterGet(cache, key, now)
  /\ probe' = [op |-> "get", key |-> key, hit |-> CacheHit(cache, key, now),
               data |-> IF CacheHit(cache, key, now) THEN cache[key].data
                        ELSE DocPayload(NoDoc),
               at |-> now,
               replaced |-> /\ probe.op = "set" /\ probe.key = key
                            /\ probe.at = now /\ probe.replaced,
               removed |-> DOMAIN cache \ DOMAIN CacheAfterGet(cache, key, now)]
  /\ UNCHANGED << now, FavVars, remote, isFavorite, HookVars, stack, io, ret, top,
                  hist, cur >>

\* invalidateCache(pattern?): cacheUtils.invalidate(pattern), or cache.clear()
\* when the pattern is missing or empty
InvalidatePatterns ==
  UtilKeys \cup {WALLPAPER_PREFIX, EmptyString, <<"c","o","u","n","t","_">>}

InvalidateCache(pattern) ==
  /\ cur = NoTask
  /\ cache' = IF pattern # EmptyString THEN CacheInvalidate(cache, pattern)
              ELSE EmptyCache
  /\ probe' = [op |-> "invalidate", key |-> pattern, hit |-> FALSE,
               data |-> DocPayload(NoDoc), at |-> now, replaced |-> FALSE,
               removed |-> DOMAIN cache \ DOMAIN cache']
  /\ UNCHANGED << now, FavVars, remote, isFavorite, HookVars, stack, io, ret, top,
                  hist, cur >>

\* ------------------------------------------- wallpaper detail screen
\* toggleFavorite handler, up to its await of AsyncStorage.getItem; the
\* handler closes over the isFavorite state of its render.
ScreenToggleFavoriteEnter(p) ==
  /\ Ready(p, "screenToggleFavorite", "start")
  /\ Suspends(p, [TopFrame(p) EXCEPT !.pc = "read",
                                     !.fav = isFavorite[TopFrame(p).id]],
              Req("getItem", SCREEN_FAVORITES_KEY, NoBlob))
  /\ UNCHANGED << now, FavVars, DataVars, isFavorite, HookVars >>

\* from the settled getItem to the await of AsyncStorage.setItem, or catch
ScreenToggleFavoriteSave(p) ==
  /\ Settled(p, "screenToggleFavorite", "read")
  /\ IF io[p].st = "ok"
     THEN LET f == TopFrame(p)
              stored == ParseOrEmpty(io[p].blob)
              favoriteIds == IF f.fav THEN Without(stored, f.id)
                             ELSE Append(stored, f.id)
          IN Suspends(p, [f EXCEPT !.pc = "write", !.list = favoriteIds],
                      Req("setItem", SCREEN_FAVORITES_KEY,
                          JSONstringify(favoriteIds)))
     ELSE Returns(p, RetVoid)
  /\ UNCHANGED << now, FavVars, DataVars, isFavorite, HookVars >>

\* from the settled setItem: setIsFavorite(!isFavorite), or catch
ScreenToggleFavoriteResume(p) ==
  /\ Settled(p, "screenToggleFavorite", "write")
  /\ isFavorite' = IF io[p].st = "ok"
                   THEN [isFavorite EXCEPT ![TopFrame(p).id] = ~TopFrame(p).fav]
                   ELSE isFavorite
  /\ Returns(p, RetVoid)
  /\ UNCHANGED << now, FavVars, DataVars, HookVars >>

\* ------------------------------------------------- favorites screen
\* loadFavorites, up to its await of FavoritesService.getFavorites
LoadFavoritesEnter(p) ==
  /\ Ready(p, "loadFavorites", "start")
  /\ Calls(p, "got", Frame("getFavorites", <<>>, <<>>))
  /\ UNCHANGED << now, FavVars, DataVars, isFavorite, HookVars >>

\* favoriteIds.length === 0 ends the load; otherwise the details of every
\* favorite are fetched (list: ids still to fetch, aux: ids that came back
\* null). The fetches touch one cache key each and are taken in list order.
LoadFavoritesGot(p) ==
  /\ Ready(p, "loadFavorites", "got")
  /\ IF Len(ret[p].list) = 0
     THEN Returns(p, RetVoid)
     ELSE Continues(p, [TopFrame(p) EXCEPT !.pc = "fetch",
                                           !.list = ret[p].list,
                                           !.aux = <<>>])
  /\ UNCHANGED << now, FavVars, DataVars, isFavorite, HookVars >>

\* the next FirestoreService.getWallpaperById(id); after the last, the
\* invalid ids are the ones to clean
LoadFavoritesFetch(p) ==
  /\ Ready(p, "loadFavorites", "fetch")
  /\ LET f == TopFrame(p)
     IN IF Len(f.list) > 0
        THEN Calls(p, "fetched", Frame("getWallpaperById", Head(f.list), <<>>))
        ELSE Continues(p, [f EXCEPT !.pc = "clean", !.list = f.aux,
                                    !.aux = <<>>])
  /\ UNCHANGED << now, FavVars, DataVars, isFavorite, HookVars >>

\* wallpaper !== null keeps the favorite valid
LoadFavoritesFetched(p) ==
  /\ Ready(p, "loadFavorites", "fetched")
  /\ LET f == TopFrame(p)
     IN Continues(p, [f EXCEPT !.pc = "fetch", !.list = Tail(f.list),
                               !.aux = IF ret[p].data.exists THEN f.aux
                                       ELSE Append(f.aux, Head(f.list))])
  /\ UNCHANGED << now, FavVars, DataVars, isFavorite, HookVars >>

\* for (const invalidId of invalidIds) await removeFavorite(invalidId)
LoadFavoritesClean(p) ==
  /\ Ready(p, "loadFavorites", "clean")
  /\ LET f == TopFrame(p)
     IN IF Len(f.list) > 0
        THEN Calls(p, "removed", Frame("removeFavorite", Head(f.list), <<>>))
        ELSE Returns(p, RetVoid)
  /\ UNCHANGED << now, FavVars, DataVars, isFavorite, HookVars >>

\* a throwing removeFavorite ends the load in its catch
LoadFavoritesRemoved(p) ==
  /\ Ready(p, "loadFavorites", "removed")
  /\ IF ret[p].kind = "throw"
     THEN Returns(p, RetVoid)
     ELSE Continues(p, [TopFrame(p) EXCEPT !.pc = "clean",
                                           !.list = Tail(@)])
  /\ UNCHANGED << now, FavVars, DataVars, isFavorite, HookVars >>

\* ------------------------------------------- hooks/useDownloadManager.ts
\* The hook's state and refs are shared by the calls of its callbacks; a
\* callback reads downloadState.isDownloading of the render that made it,
\* taken here to be the current state when the callback is called.
NoDownload == << >>
IdleState == [isDownloading |-> FALSE, progress |-> 0,
              downloadId |-> NoDownload, error |-> "none"]
\* onSuccess / onError called, FirestoreService.incrementDownloadCount
\* called; and whether a cancelDownload acted while the call was under way,
\* and at which await of the call.
NoReport == [success |-> FALSE, error |-> FALSE, counted |-> FALSE,
             started |-> FALSE, cancelled |-> FALSE, cancelledAt |-> "none"]
\* Platform.OS of the device
PlatformOS == "android"

ReqNative(op, target) ==
  [NoIo EXCEPT !.st = "req", !.op = op, !.list = << target >>]

\* The native module settles the call task p awaits. A transfer completes
\* with its file or fails, and once paused its downloadAsync resolves with
\* undefined; pauseAsync stops a running transfer; a permission is granted
\* or denied; the file written is sound or not; the album exists or not
\* (count: 1 or 0). Any call may reject.
NativeExec(p) ==
  /\ io[p].st = "req"
  /\ IsNative(io[p])
  /\ LET op == io[p].op
         target == io[p].list[1]
     IN \E ok \in BOOLEAN, found \in {0, 1} :
          /\ op = "downloadAsync"
               => IF transfer[p] = "paused" THEN ok /\ found = 0
                  ELSE transfer[p] = "running" /\ found = 1
          /\ op \notin {"downloadAsync", "requestPermissionsAsync",
                        "getInfoAsync", "getAlbumAsync"} => found = 1
          /\ ~ok => found = 1
          /\ io' = [io EXCEPT ![p].st = IF ok THEN "ok" ELSE "err",
                              ![p].count = IF ok THEN found ELSE 0]
          /\ transfer' =
               IF op = "downloadAsync"
               THEN [transfer EXCEPT ![p] = IF ok /\ found = 1 THEN "done"
                                            ELSE "none"]
               ELSE IF op = "pauseAsync" /\ ok /\ transfer[target] = "running"
               THEN [transfer EXCEPT ![target] = "paused"]
               ELSE transfer
  /\ UNCHANGED << now, FavVars, DataVars, isFavorite, downloadState,
                  downloadRef, abortController, aborted, report, stack, ret,
                  top, hist, cur >>

\* The progress callback of a running transfer:
\* setDownloadState(prev => ({ ...prev, progress: Math.min(progress, 0.95) }))
\* with the progress in hundredths.
ProgressSteps == {50, 100}
Min(a, b) == IF a < b THEN a ELSE b
DownloadProgress(p) ==
  /\ cur = NoTask
  /\ transfer[p] = "running"
  /\ \E progress \in ProgressSteps :
       /\ downloadState.progress < Min(progress, 95)
       /\ downloadState' = [downloadState EXCEPT !.progress = Min(progress, 95)]
  /\ UNCHANGED << now, FavVars, DataVars, isFavorite, downloadRef,
                  abortController, aborted, transfer, report, stack, io, ret,
                  top, hist, cur >>

\* the state set, the AbortController and the DownloadResumable created,
\* and downloadAsync awaited
BeginsTransfer(p) ==
  /\ downloadState' = [isDownloading |-> TRUE, progress |-> 0,
                       downloadId |-> TopFrame(p).id, error |-> "none"]
  /\ abortController' = p
  /\ aborted' = aborted \ {p}
  /\ downloadRef' = p
  /\ transfer' = [transfer EXCEPT ![p] = "running"]
  /\ report' = [report EXCEPT ![p].started = TRUE]
  /\ Suspends(p, [TopFrame(p) EXCEPT !.pc = "transfer"],
              ReqNative("downloadAsync", p))

\* downloadWallpaper, up to its await of checkPermissions, which on android
\* awaits MediaLibrary.requestPermissionsAsync and elsewhere resolves at
\* once, the call going on to its transfer
DownloadWallpaperEnter(p) ==
  /\ Ready(p, "downloadWallpaper", "start")
  /\ IF downloadState.isDownloading
     THEN /\ Returns(p, RetVoid)
          /\ UNCHANGED HookVars
     ELSE IF PlatformOS = "android"
     THEN /\ Suspends(p, [TopFrame(p) EXCEPT !.pc = "perm"],
                      ReqNative("requestPermissionsAsync", p))
          /\ UNCHANGED HookVars
     ELSE BeginsTransfer(p)
  /\ UNCHANGED << now, FavVars, DataVars, isFavorite >>

\* from the settled permission request: a refusal or a rejection ends the
\* call with onError
DownloadWallpaperPermitted(p) ==
  /\ Settled(p, "downloadWallpaper", "perm")
  /\ IF io[p].st = "ok" /\ io[p].count = 1
     THEN BeginsTransfer(p)
     ELSE /\ report' = [report EXCEPT ![p].error = TRUE]
          /\ Returns(p, RetVoid)
          /\ UNCHANGED << downloadState, downloadRef, abortController,
                          aborted, transfer >>
  /\ UNCHANGED << now, FavVars, DataVars, isFavorite >>

\* catch and finally of downloadWallpaper
Fails(p, errorMessage) ==
  /\ downloadState' = [downloadState EXCEPT !.isDownloading = FALSE,
                                            !.error = errorMessage]
  /\ report' = [report EXCEPT ![p].error = TRUE]
  /\ downloadRef' = NoTask
  /\ abortController' = NoTask
  /\ Returns(p, RetVoid)
  /\ UNCHANGED << aborted, transfer >>

\* abortController.current?.signal.aborted
SignalAborted == abortController # NoTask /\ abortController \in aborted

\* from the settled downloadAsync to the await of getInfoAsync
DownloadWallpaperTransferred(p) ==
  /\ Settled(p, "downloadWallpaper", "transfer")
  /\ IF io[p].st = "err" THEN Fails(p, "native")
     ELSE IF SignalAborted THEN Fails(p, "cancelled")
     ELSE IF io[p].count = 0 THEN Fails(p, "no file")
     ELSE /\ Suspends(p, [TopFrame(p) EXCEPT !.pc = "info"],
                      ReqNative("getInfoAsync", p))
          /\ UNCHANGED HookVars
  /\ UNCHANGED << now, FavVars, DataVars, isFavorite >>

\* from the settled getInfoAsync: progress 1, createAssetAsync awaited
DownloadWallpaperChecked(p) ==
  /\ Settled(p, "downloadWallpaper", "info")
  /\ IF io[p].st = "err" THEN Fails(p, "native")
     ELSE IF io[p].count = 0 THEN Fails(p, "corrupt")
     ELSE /\ downloadState' = [downloadState EXCEPT !.progress = 100]
          /\ Suspends(p, [TopFrame(p) EXCEPT !.pc = "asset"],
                      ReqNative("createAssetAsync", p))
          /\ UNCHANGED << downloadRef, abortController, aborted, transfer,
                          report >>
  /\ UNCHANGED << now, FavVars, DataVars, isFavorite >>

\* from the settled createAssetAsync to the await of getAlbumAsync
DownloadWallpaperSaved(p) ==
  /\ Settled(p, "downloadWallpaper", "asset")
  /\ IF io[p].st = "err" THEN Fails(p, "save")
     ELSE /\ Suspends(p, [TopFrame(p) EXCEPT !.pc = "album"],
                      ReqNative("getAlbumAsync", p))
          /\ UNCHANGED HookVars
  /\ UNCHANGED << now, FavVars, DataVars, isFavorite >>

\* from the settled getAlbumAsync: the album is created or added to; an
\* album error is only logged, the cached file is deleted next
DownloadWallpaperAlbum(p) ==
  /\ Settled(p, "downloadWallpaper", "album")
  /\ IF io[p].st = "err"
     THEN Suspends(p, [TopFrame(p) EXCEPT !.pc = "delete"],
                   ReqNative("deleteAsync", p))
     ELSE Suspends(p, [TopFrame(p) EXCEPT !.pc = "albumAdd"],
                   ReqNative(IF io[p].count = 0 THEN "createAlbumAsync"
                             ELSE "addAssetsToAlbumAsync", p))
  /\ UNCHANGED << now, FavVars, DataVars, isFavorite, HookVars >>

DownloadWallpaperAlbumAdded(p) ==
  /\ Settled(p, "downloadWallpaper", "albumAdd")
  /\ Suspends(p, [TopFrame(p) EXCEPT !.pc = "delete"],
              ReqNative("deleteAsync", p))
  /\ UNCHANGED << now, FavVars, DataVars, isFavorite, HookVars >>

\* from the settled deleteAsync, whose error is only logged:
\* incrementDownloadCount called and not awaited, onSuccess, the state
\* reset, the refs cleared
DownloadWallpaperDone(p) ==
  /\ Settled(p, "downloadWallpaper", "delete")
  /\ report' = [report EXCEPT ![p].counted = TRUE, ![p].success = TRUE]
  /\ downloadState' = IdleState
  /\ downloadRef' = NoTask
  /\ abortController' = NoTask
  /\ Returns(p, RetVoid)
  /\ UNCHANGED << now, FavVars, DataVars, isFavorite, aborted, transfer >>

\* the downloadWallpaper calls that have set the download state and not
\* returned
UnderWay == {r \in Tasks : Running(r) /\ top[r].fn = "downloadWallpaper"
                             /\ report[r].started}

\* cancelDownload, up to its await of pauseAsync
CancelDownloadEnter(p) ==
  /\ Ready(p, "cancelDownload", "start")
  /\ IF ~downloadState.isDownloading
     THEN /\ Returns(p, RetVoid)
          /\ UNCHANGED HookVars
     ELSE /\ aborted' = IF abortController # NoTask
                        THEN aborted \cup {abortController} ELSE aborted
          /\ report' = [r \in Tasks |->
                         IF r \in UnderWay /\ ~report[r].cancelled
                         THEN [report[r] EXCEPT !.cancelled = TRUE,
                                                !.cancelledAt = TopFrame(r).pc]
                         ELSE report[r]]
          /\ IF downloadRef # NoTask
             THEN /\ Suspends(p, [TopFrame(p) EXCEPT !.pc = "await"],
                              ReqNative("pauseAsync", downloadRef))
                  /\ UNCHANGED << downloadState, downloadRef >>
             ELSE /\ downloadState' = IdleState
                  /\ Returns(p, RetVoid)
                  /\ UNCHANGED downloadRef
          /\ UNCHANGED << abortController, transfer >>
  /\ UNCHANGED << now, FavVars, DataVars, isFavorite >>

\* from the settled pauseAsync: the ref cleared and the state reset, or
\* catch and the state reset
CancelDownloadResume(p) ==
  /\ Settled(p, "cancelDownload", "await")
  /\ downloadRef' = IF io[p].st = "ok" THEN NoTask ELSE downloadRef
  /\ downloadState' = IdleState
  /\ Returns(p, RetVoid)
  /\ UNCHANGED << now, FavVars, DataVars, isFavorite, abortController,
                  aborted, transfer, report >>

\* ------------------------------------------------------------ the clock
\* Time passes between event-loop tasks, d minutes at a time.
Tick(d) ==
  /\ cur = NoTask
  /\ now + d <= MaxTime
  /\ now' = now + d
  /\ UNCHANGED << FavVars, DataVars, isFavorite, HookVars, stack, io, ret, top, hist,
                  cur >>

\* ------------------------------------------------------------ start-up
ImportInputs == SeqsUpTo(FavIds \cup {EmptyString}, MaxImportLen)

Init ==
  /\ now = 0
  /\ storage = [k \in StorageKeys |-> NoBlob]
  /\ favoritesCache = NoMirror
  /\ cacheTimestamp = 0
  /\ cache = EmptyCache
  /\ remote = [i \in DocIds \cup Ids \cup FavIds |-> Doc(i, 0, 0)]
  /\ probe = NoProbe
  /\ isFavorite = [i \in FavIds |-> FALSE]
  /\ downloadState = IdleState
  /\ downloadRef = NoTask
  /\ abortController = NoTask
  /\ aborted = {}
  /\ transfer = [p \in Tasks |-> "none"]
  /\ report = [p \in Tasks |-> NoReport]
  /\ stack = [p \in Tasks |-> << >>]
  /\ io = [p \in Tasks |-> NoIo]
  /\ ret = [p \in Tasks |-> NoRet]
  /\ top = [p \in Tasks |-> NoTop]
  /\ hist = [p \in Tasks |-> NoHist]
  /\ cur = NoTask

\* The download button and the cancel button of a screen: one task
\* downloads, the other cancels; a download starts when the cancels before
\* it have returned.
DownloadTask == "t1"
CancelTask == "t2"
StartDownload(p) ==
  /\ \E i \in Ids : Start(p, "downloadWallpaper", i, <<>>)
  /\ report' = [report EXCEPT ![p] = NoReport]
  /\ UNCHANGED << now, FavVars, DataVars, isFavorite, downloadState,
                  downloadRef, abortController, aborted, transfer >>

StartCancel(p) ==
  /\ Start(p, "cancelDownload", <<>>, <<>>)
  /\ UNCHANGED << now, FavVars, DataVars, isFavorite, HookVars >>

DownloadStep(p) ==
  \/ DownloadWallpaperEnter(p)
  \/ DownloadWallpaperPermitted(p)
  \/ DownloadWallpaperTransferred(p)
  \/ DownloadWallpaperChecked(p)
  \/ DownloadWallpaperSaved(p)
  \/ DownloadWallpaperAlbum(p)
  \/ DownloadWallpaperAlbumAdded(p)
  \/ DownloadWallpaperDone(p)

NextCancel ==
  \/ ~Running(CancelTask) /\ StartDownload(DownloadTask)
  \/ StartCancel(CancelTask)
  \/ DownloadStep(DownloadTask)
  \/ CancelDownloadEnter(CancelTask)
  \/ CancelDownloadResume(CancelTask)
  \/ \E p \in Tasks : NativeExec(p)
  \/ DownloadProgress(DownloadTask)

SpecCancel == Init /\ [][NextCancel]_vars

\* The download button pressed again while a download call is under way.
NextDownloads ==
  \/ \E p \in Tasks : StartDownload(p)
  \/ \E p \in Tasks : DownloadStep(p)
  \/ \E p \in Tasks : NativeExec(p)
  \/ \E p \in Tasks : DownloadProgress(p)

SpecDownloads == Init /\ [][NextDownloads]_vars

\* The calls the screens make on the favorites service.
FavCall(p) ==
  \/ Start(p, "getFavorites", <<>>, <<>>)
  \/ \E i \in FavIds :
       \E fn \in {"isFavorite", "toggleFavorite", "addFavorite",
                  "removeFavorite"} : Start(p, fn, i, <<>>)
  \/ Start(p, "clearFavorites", <<>>, <<>>)
  \/ \E l \in ImportInputs : Start(p, "importFavorites", <<>>, l)

StartFav(p) ==
  /\ FavCall(p)
  /\ UNCHANGED << now, FavVars, DataVars, isFavorite, HookVars >>

FavStep(p) ==
  \/ GetFavoritesEnter(p)
  \/ GetFavoritesResume(p)
  \/ IsFavoriteEnter(p)
  \/ IsFavoriteReturn(p)
  \/ ToggleFavoriteEnter(p)
  \/ ToggleFavoriteSave(p)
  \/ ToggleFavoriteResume(p)
  \/ AddFavoriteEnter(p)
  \/ AddFavoriteReturn(p)
  \/ RemoveFavoriteEnter(p)
  \/ RemoveFavoriteCheck(p)
  \/ RemoveFavoriteReturn(p)
  \/ ClearFavoritesEnter(p)
  \/ ClearFavoritesResume(p)
  \/ ImportFavoritesEnter(p)
  \/ ImportFavoritesResume(p)

\* One task at a time: the favorites service called sequentially.
SeqTask == "t1"
NextFav ==
  \/ StartFav(SeqTask)
  \/ FavStep(SeqTask)
  \/ StorageExec(SeqTask)
  \/ InvalidateFavoritesCache
  \/ Tick(CACHE_DURATION)

SpecFav == Init /\ [][NextFav]_vars

\* Two tasks interleaved at their awaits: reads, toggles and clears.
RaceCall(p) ==
  \/ Start(p, "getFavorites", <<>>, <<>>)
  \/ \E i \in FavIds : Start(p, "toggleFavorite", i, <<>>)
  \/ Start(p, "clearFavorites", <<>>, <<>>)

StartRace(p) ==
  /\ RaceCall(p)
  /\ UNCHANGED << now, FavVars, DataVars, isFavorite, HookVars >>

RaceStep(p) ==
  \/ GetFavoritesEnter(p)
  \/ GetFavoritesResume(p)
  \/ ToggleFavoriteEnter(p)
  \/ ToggleFavoriteSave(p)
  \/ ToggleFavoriteResume(p)
  \/ ClearFavoritesEnter(p)
  \/ ClearFavoritesResume(p)

NextFavRace ==
  \/ \E p \in Tasks : StartRace(p)
  \/ \E p \in Tasks : RaceStep(p)
  \/ \E p \in Tasks : StorageExec(p)
  \/ InvalidateFavoritesCache

SpecFavRace == Init /\ [][NextFavRace]_vars

\* The calls the screens make on the data service.
DataCall(p) ==
  \/ \E i \in Ids : Start(p, "getWallpaperById", i, <<>>)
  \/ \E i \in Ids :
       /\ remote[i].downloads + remote[i].views < MaxUpdates
       /\ \E fn \in {"incrementDownloadCount", "incrementViewCount"} :
            Start(p, fn, i, <<>>)

StartData(p) ==
  /\ DataCall(p)
  /\ UNCHANGED << now, FavVars, DataVars, isFavorite, HookVars >>

DataStep(p) ==
  \/ GetWallpaperByIdEnter(p)
  \/ GetWallpaperByIdResume(p)
  \/ IncrementDownloadCountEnter(p)
  \/ IncrementDownloadCountResume(p)
  \/ IncrementViewCountEnter(p)
  \/ IncrementViewCountResume(p)

\* The data service called sequentially.
NextData ==
  \/ StartData(SeqTask)
  \/ DataStep(SeqTask)
  \/ RemoteExec(SeqTask)
  \/ ClearCache
  \/ Tick(TTL_wallpapers)

SpecData == Init /\ [][NextData]_vars

\* The data service called by two tasks interleaved at their awaits.
NextDataRace ==
  \/ \E p \in Tasks : StartData(p)
  \/ \E p \in Tasks : DataStep(p)
  \/ \E p \in Tasks : RemoteExec(p)

SpecDataRace == Init /\ [][NextDataRace]_vars

\* cacheUtils applied directly to keys, values and ttls of the service.
NextCacheUtils ==
  \/ \E k \in UtilKeys, v \in UtilValues, ttl \in CacheTtls :
       CacheUtilsSet(k, v, ttl)
  \/ \E k \in UtilKeys : CacheUtilsGet(k)
  \/ \E pattern \in InvalidatePatterns : InvalidateCache(pattern)
  \/ Tick(TTL_search)

SpecCacheUtils == Init /\ [][NextCacheUtils]_vars

\* The handlers of the favorites screen and of the detail screen, and a
\* consumer of FavoritesService.toggleFavorite.
ScreenCall(p) ==
  \/ Start(p, "loadFavorites", <<>>, <<>>)
  \/ Start(p, "clearFavorites", <<>>, <<>>)
  \/ \E i \in FavIds :
       \E fn \in {"screenToggleFavorite", "toggleFavorite", "removeFavorite"} :
         Start(p, fn, i, <<>>)

StartScreen(p) ==
  /\ ScreenCall(p)
  /\ UNCHANGED << now, FavVars, DataVars, isFavorite, HookVars >>

ScreenStep(p) ==
  \/ ScreenToggleFavoriteEnter(p)
  \/ ScreenToggleFavoriteSave(p)
  \/ ScreenToggleFavoriteResume(p)
  \/ LoadFavoritesEnter(p)
  \/ LoadFavoritesGot(p)
  \/ LoadFavoritesFetch(p)
  \/ LoadFavoritesFetched(p)
  \/ LoadFavoritesClean(p)
  \/ LoadFavoritesRemoved(p)
  \/ GetWallpaperByIdEnter(p)
  \/ GetWallpaperByIdResume(p)
  \/ GetFavoritesEnter(p)
  \/ GetFavoritesResume(p)
  \/ ToggleFavoriteEnter(p)
  \/ ToggleFavoriteSave(p)
  \/ ToggleFavoriteResume(p)
  \/ RemoveFavoriteEnter(p)
  \/ RemoveFavoriteCheck(p)
  \/ RemoveFavoriteReturn(p)
  \/ ClearFavoritesEnter(p)
  \/ ClearFavoritesResume(p)

\* The screens used one handler at a time.
NextScreen ==
  \/ StartScreen(SeqTask)
  \/ ScreenStep(SeqTask)
  \/ StorageExec(SeqTask)
  \/ RemoteExec(SeqTask)
  \/ Tick(CACHE_DURATION)

SpecScreen == Init /\ [][NextScreen]_vars

\* The read calls the screens make on the data service. A call that would
\* add an entry to the cache starts while the cache has room for it.
Limits == 1..MaxLimit
SearchTerms == {<<"a">>, <<" ","B">>, <<" ">>}
HasRoom(fn, id, args) ==
  \/ CacheKeyOf(fn, id, args) \in DOMAIN cache
  \/ Cardinality(DOMAIN cache) < MaxEntries
StartCached(p, fn, id, args) ==
  /\ HasRoom(fn, id, args)
  /\ Start(p, fn, id, args)

QueryCall(p) ==
  \/ \E n \in Limits :
       \E fn \in {"getFeaturedWallpapers", "getPopularWallpapers",
                  "getNewWallpapers"} : StartCached(p, fn, <<>>, << n >>)
  \/ StartCached(p, "getAllCategories", <<>>, <<>>)
  \/ \E c \in CategoryIds \cup {CATEGORY_NONE} :
       StartCached(p, "getCategoryById", c, <<>>)
  \/ \E i \in Ids : StartCached(p, "getWallpaperById", i, <<>>)
  \/ \E c \in CategoryIds, n \in Limits :
       StartCached(p, "getRelatedWallpapers", c, << n, IdPool[1] >>)
  \/ \E c \in CategoryIds :
       StartCached(p, "getWallpapersCountByCategory", c, <<>>)
  \/ \E t \in SearchTerms, n \in Limits :
       StartCached(p, "searchWallpapers", t, << n >>)
  \/ \E c \in CategoryIds, n \in Limits :
       Start(p, "getWallpapersByCategory", c, << n, NoDoc >>)

StartQuery(p) ==
  /\ QueryCall(p)
  /\ UNCHANGED << now, FavVars, DataVars, isFavorite, HookVars >>

QueryStep(p) ==
  \/ GetFeaturedWallpapersEnter(p)
  \/ GetFeaturedWallpapersResume(p)
  \/ GetAllCategoriesEnter(p)
  \/ GetAllCategoriesResume(p)
  \/ GetCategoryByIdEnter(p)
  \/ GetCategoryByIdResume(p)
  \/ GetWallpaperByIdEnter(p)
  \/ GetWallpaperByIdResume(p)
  \/ GetRelatedWallpapersEnter(p)
  \/ GetRelatedWallpapersResume(p)
  \/ GetPopularWallpapersEnter(p)
  \/ GetPopularWallpapersResume(p)
  \/ GetNewWallpapersEnter(p)
  \/ GetNewWallpapersResume(p)
  \/ GetWallpapersCountByCategoryEnter(p)
  \/ GetWallpapersCountByCategoryResume(p)
  \/ SearchWallpapersEnter(p)
  \/ SearchWallpapersResume(p)
  \/ GetWallpapersByCategoryEnter(p)
  \/ GetWallpapersByCategoryResume(p)

\* The read side of the data service called sequentially.
NextQuery ==
  \/ StartQuery(SeqTask)
  \/ QueryStep(SeqTask)
  \/ RemoteExec(SeqTask)
  \/ RemoteExecTag(SeqTask)
  \/ ClearCache
  \/ Tick(TTL_wallpapers)

SpecQuery == Init /\ [][NextQuery]_vars

\* The paginated listing called sequentially, with no cursor or with the
\* snapshot of a document as cursor.
PageCall(p) ==
  \E c \in CategoryIds, n \in Limits :
    \E lastDoc \in {NoDoc} \cup {remote[i] : i \in DOMAIN remote} :
      Start(p, "getWallpapersByCategory", c, << n, lastDoc >>)

StartPage(p) ==
  /\ PageCall(p)
  /\ UNCHANGED << now, FavVars, DataVars, isFavorite, HookVars >>

NextPage ==
  \/ StartPage(SeqTask)
  \/ GetWallpapersByCategoryEnter(SeqTask)
  \/ GetWallpapersByCategoryResume(SeqTask)
  \/ RemoteExec(SeqTask)
  \/ Tick(TTL_wallpapers)

SpecPage == Init /\ [][NextPage]_vars

\* A search by one task while another increments download counts.
SearchTask == "t1"
UpdateTask == "t2"
SearchCall(p) ==
  \/ /\ p = SearchTask
     /\ \E t \in SearchTerms, n \in Limits :
          StartCached(p, "searchWallpapers", t, << n >>)
  \/ /\ p = UpdateTask
     /\ \E i \in Ids :
          /\ remote[i].downloads + remote[i].views < MaxUpdates
          /\ Start(p, "incrementDownloadCount", i, <<>>)

StartSearch(p) ==
  /\ SearchCall(p)
  /\ UNCHANGED << now, FavVars, DataVars, isFavorite, HookVars >>

NextSearch ==
  \/ \E p \in Tasks : StartSearch(p)
  \/ SearchWallpapersEnter(SearchTask)
  \/ SearchWallpapersResume(SearchTask)
  \/ IncrementDownloadCountEnter(UpdateTask)
  \/ IncrementDownloadCountResume(UpdateTask)
  \/ \E p \in Tasks : RemoteExec(p)
  \/ RemoteExecTag(SearchTask)

SpecSearch == Init /\ [][NextSearch]_vars

\* ------------------------------------------------------------ claims
\* A top-level call fn that task p ran to its end with no other call in
\* between; OkCall: and that returned rather than threw.
Completed(p, fn) ==
  /\ Finished(p)
  /\ hist[p].alone
  /\ top[p].fn = fn
OkCall(p, fn) == Completed(p, fn) /\ ret[p].kind = "value"
PreList(p) == ParseOrEmpty(hist[p].pre.blob)
PersistedList == ParseOrEmpty(Persisted)

\* C2: addFavorite(id) on a list that already contains id, and
\* removeFavorite(id) on a list without id, leave the persisted list
\* unchanged and report success (true).
C2_AddRemoveNoOp ==
  \A p \in Tasks :
    /\ (OkCall(p, "addFavorite") /\ Includes(PreList(p), top[p].id))
         => (Persisted = hist[p].pre.blob /\ ret[p].b)
    /\ (OkCall(p, "removeFavorite") /\ ~Includes(PreList(p), top[p].id))
         => (Persisted = hist[p].pre.blob /\ ret[p].b)

\* C3: at the step in which a mutation (toggleFavorite, clearFavorites)
\* returns successfully, the mirror equals the persisted list.
C3_MirrorEqualsPersistedAfterMutation ==
  [][\A p \in Tasks :
       (/\ Running(p)
        /\ top[p].fn \in {"toggleFavorite", "clearFavorites"}
        /\ stack'[p] = << >>
        /\ ret'[p].kind = "value")
       => (/\ ~favoritesCache'.isNull
           /\ favoritesCache'.v = ParseOrEmpty(storage'[FAVORITES_KEY]))]_vars

C5_WriteFailureChangesNothing ==
  \A p \in Tasks :
    (/\ Finished(p)
     /\ hist[p].alone
     /\ top[p].fn \in {"toggleFavorite", "clearFavorites"}
     /\ hist[p].werr)
    => (/\ ret[p].kind = "throw"
        /\ Persisted = hist[p].pre.blob
        /\ favoritesCache = hist[p].pre.mirror
        /\ cacheTimestamp = hist[p].pre.ts)

\* C5 (amended): the call throws and the persisted list is unchanged; the
\* mirror is unchanged too, except that a toggleFavorite whose own
\* getFavorites read storage successfully has refreshed the mirror to the
\* persisted list, stamped with the time of that call.
C5_WriteFailureThrows ==
  \A p \in Tasks :
    (/\ Finished(p)
     /\ hist[p].alone
     /\ top[p].fn \in {"toggleFavorite", "clearFavorites"}
     /\ hist[p].werr)
    => (/\ ret[p].kind = "throw"
        /\ Persisted = hist[p].pre.blob
        /\ IF hist[p].read /\ ~hist[p].rerr
           THEN /\ favoritesCache = Mirror(PreList(p))
                /\ cacheTimestamp = hist[p].pre.now
           ELSE /\ favoritesCache = hist[p].pre.mirror
                /\ cacheTimestamp = hist[p].pre.ts)

C5_Witness ==
  \E p \in Tasks :
    /\ Completed(p, "toggleFavorite")
    /\ hist[p].werr
    /\ hist[p].read
    /\ ~hist[p].rerr
    /\ favoritesCache # hist[p].pre.mirror

\* Two successive toggleFavorite(id) calls of task p, both returned.
TwoToggles(p) ==
  /\ OkCall(p, "toggleFavorite")
  /\ hist[p].prev.fn = "toggleFavorite"
  /\ hist[p].prev.id = top[p].id
\* The list the first of them started from.
FirstList(p) == ParseOrEmpty(hist[p].prev.blob)

\* C6 (as claimed): from an empty set toggleFavorite(id) returns true and
\* leaves [id], a second toggleFavorite(id) returns false and leaves [];
\* two successive toggles of the same id restore the original list (stated
\* here for calls none of whose storage requests failed).
C6_TwoTogglesRestore ==
  \A p \in Tasks :
    /\ (OkCall(p, "toggleFavorite") /\ PreList(p) = << >> /\ ~hist[p].rerr)
         => (ret[p].b /\ PersistedList = << top[p].id >>)
    /\ (TwoToggles(p) /\ ~hist[p].rerr /\ ~hist[p].prev.rerr)
         => PersistedList = FirstList(p)

\* C6 (amended): from an empty set toggleFavorite(id) returns true and
\* leaves the persisted list and the mirror at [id]; a second
\* toggleFavorite(id) returns false and leaves them at [].  In general two
\* successive toggles of id restore the list the first one read when id was
\* not in it, and leave it with id moved to the end when id was in it.  A
\* toggle whose storage read fails takes the list to be empty.
C6_RoundTrip ==
  \A p \in Tasks :
    /\ (OkCall(p, "toggleFavorite") /\ PreList(p) = << >>)
         => (/\ ret[p].b
             /\ PersistedList = << top[p].id >>
             /\ favoritesCache = Mirror(<< top[p].id >>))
    /\ TwoToggles(p)
         => LET id == top[p].id
                read1 == IF hist[p].prev.rerr THEN << >> ELSE FirstList(p)
            IN IF hist[p].rerr
               THEN ret[p].b /\ PersistedList = << id >>
               ELSE /\ ret[p].b = Includes(read1, id)
                    /\ favoritesCache = Mirror(PersistedList)
                    /\ PersistedList =
                         IF Includes(read1, id)
                         THEN Append(Without(read1, id), id)
                         ELSE read1

C6_Witness ==
  \E p \in Tasks :
    /\ TwoToggles(p)
    /\ ~hist[p].rerr
    /\ ~hist[p].prev.rerr
    /\ Len(FirstList(p)) = 2
    /\ Head(FirstList(p)) = top[p].id
    /\ PersistedList # FirstList(p)

\* C7: removeFavorite(id) when id is not in the favorites list returns true
\* and issues no write to persistent storage; the persisted list is the same.
C7_RemoveAbsentNoWrite ==
  \A p \in Tasks :
    (Completed(p, "removeFavorite") /\ ~Includes(PreList(p), top[p].id))
    => (/\ ret[p] = RetBool(TRUE)
        /\ ~hist[p].wrote
        /\ Persisted = hist[p].pre.blob)

C7_Witness ==
  \E p \in Tasks :
    /\ Completed(p, "removeFavorite")
    /\ ~Includes(PreList(p), top[p].id)
    /\ Len(PreList(p)) > 0
    /\ ~hist[p].rerr

\* ------------------------------------------------------------------ C1
IsIncrement(fn) == fn \in {"incrementDownloadCount", "incrementViewCount"}
KeysOf(c, id) == {k \in DOMAIN c : StrIncludes(k, WallpaperKey(id))}

\* C1 (as stated): when incrementDownloadCount(id) or incrementViewCount(id)
\* has completed, with the remote update succeeded or failed, no cache entry
\* whose key contains wallpaper_<id> is left.
C1_InvalidationUnconditional ==
  \A p \in Tasks :
    (Finished(p) /\ hist[p].alone /\ IsIncrement(top[p].fn))
      => KeysOf(cache, top[p].id) = {}

\* C1 (amended): the remote update is attempted first, the cache untouched
\* while it is awaited. When the update succeeded the call returns true and
\* has removed exactly the entries whose key contains wallpaper_<id>; when
\* the update failed the call returns false and the cache is as it was
\* before the call, the entries of that id included.
C1_InvalidationOnSuccessOnly ==
  \A p \in Tasks :
    /\ (hist[p].alone /\ Running(p) /\ IsIncrement(top[p].fn))
         => cache = hist[p].pre.cache
    /\ (Finished(p) /\ hist[p].alone /\ IsIncrement(top[p].fn))
         => /\ ret[p].kind = "value"
            /\ ret[p].b = ~hist[p].uerr
            /\ IF ret[p].b
               THEN /\ DOMAIN cache
                         = DOMAIN hist[p].pre.cache
                             \ KeysOf(hist[p].pre.cache, top[p].id)
                    /\ \A k \in DOMAIN cache : cache[k] = hist[p].pre.cache[k]
               ELSE cache = hist[p].pre.cache

\* A failed update of 42 has returned false and left the entries of 42 and
\* of 420 in the cache.
C1_Witness ==
  \E p \in Tasks :
    /\ Finished(p) /\ hist[p].alone /\ IsIncrement(top[p].fn)
    /\ hist[p].uerr
    /\ ~ret[p].b
    /\ Cardinality(KeysOf(cache, top[p].id)) = 2

\* ------------------------------------------------------------------ C8
\* C8: an id made favorite by the toggle of the detail screen, its storage
\* read and write succeeded, is in the list FavoritesService.getFavorites()
\* reads from storage.
C8_OneStorageKey ==
  \A p \in Tasks :
    (/\ Completed(p, "screenToggleFavorite")
     /\ ~hist[p].rerr /\ ~hist[p].werr
     /\ isFavorite[top[p].id])
      => Includes(PersistedList, top[p].id)

\* ------------------------------------------------------------------ C9
\* C9: after a load of the favorites screen in which a remote read failed,
\* every id that was in the persisted favorites list and whose document
\* exists remotely is still in the list, and no id was added.
C9_NetworkFailureKeepsFavorites ==
  \A p \in Tasks :
    (Completed(p, "loadFavorites") /\ hist[p].nerr)
      => /\ \A i \in FavIds :
              (Includes(PreList(p), i) /\ remote[i].exists)
                => Includes(PersistedList, i)
         /\ \A i \in FavIds :
              Includes(PersistedList, i) => Includes(PreList(p), i)

\* ------------------------------------------------------------------ C10
\* C10: for every key k, value v and ttl the service passes,
\* cacheUtils.set(k, v, ttl) followed by cacheUtils.get(k) at the same
\* clock value returns v, whatever entry k had before the set.
C10_SetThenGet ==
  [][(probe.op = "set" /\ probe.at = now
      /\ probe'.op = "get" /\ probe'.key = probe.key)
       => (probe'.hit /\ probe'.data = probe.data)]_vars

\* A get has returned the value of the set before it, which replaced an
\* entry holding another value.
C10_Witness ==
  /\ probe.op = "get"
  /\ probe.hit
  /\ probe.replaced
  /\ probe.at > 0
  /\ cache[probe.key].data = probe.data

\* ------------------------------------------------------------------ C11
\* C11: cacheUtils.set stores the entry with the clock value of the call,
\* and cacheUtils.get(k) serves the entry of k exactly while
\* now - storedAt <= ttl: it then returns the stored value and leaves the
\* cache as it is; once more than ttl has elapsed since the last set it
\* returns absent and the entry is evicted by that lookup.
C11_ServedWhileWithinTtl ==
  [][/\ \A k \in UtilKeys, v \in UtilValues, ttl \in CacheTtls :
          CacheUtilsSet(k, v, ttl)
            => cache'[k] = [data |-> v, timestamp |-> now, ttl |-> ttl]
     /\ \A k \in UtilKeys :
          CacheUtilsGet(k)
            => IF k \in DOMAIN cache
                  /\ now - cache[k].timestamp <= cache[k].ttl
               THEN /\ probe'.hit
                    /\ probe'.data = cache[k].data
                    /\ cache' = cache
               ELSE /\ ~probe'.hit
                    /\ k \notin DOMAIN cache'
                    /\ \A j \in DOMAIN cache \ {k} :
                         j \in DOMAIN cache' /\ cache'[j] = cache[j]]_vars

\* An entry has been served at the very end of its ttl.
C11_Witness ==
  /\ probe.op = "get"
  /\ probe.hit
  /\ now - cache[probe.key].timestamp = cache[probe.key].ttl

\* ------------------------------------------------------------------ C12
\* pattern occurs in key at some offset
OccursIn(pattern, key) ==
  \E off \in 0..Len(key) :
    /\ off + Len(pattern) <= Len(key)
    /\ \A j \in 1..Len(pattern) : key[off + j] = pattern[j]

\* C12: invalidateCache(pattern) removes exactly the entries whose key
\* contains pattern as a substring and leaves every other entry (key,
\* value, timestamp, ttl) unchanged.
C12_InvalidateExactly ==
  [][\A pattern \in InvalidatePatterns :
       InvalidateCache(pattern)
         => /\ DOMAIN cache'
                 = {k \in DOMAIN cache : ~OccursIn(pattern, k)}
            /\ \A k \in DOMAIN cache' : cache'[k] = cache[k]]_vars

\* invalidate of wallpaper_42 has removed wallpaper_42 and wallpaper_420.
C12_Witness ==
  /\ probe.op = "invalidate"
  /\ probe.key = WallpaperKey(IdPool[1])
  /\ probe.removed = {WallpaperKey(IdPool[1]), WallpaperKey(IdPool[2])}

\* ------------------------------------------------------------------ C13
CachedFns ==
  ListFns \cup {"getCategoryById", "getWallpaperById",
                "getWallpapersCountByCategory", "searchWallpapers"}
CallKey(p) == CacheKeyOf(top[p].fn, top[p].id, top[p].list)
\* the entry the call found under its key was not expired
FoundFresh(p) ==
  /\ CallKey(p) \in DOMAIN hist[p].pre.cache
  /\ hist[p].pre.now - hist[p].pre.cache[CallKey(p)].timestamp
       <= hist[p].pre.cache[CallKey(p)].ttl

\* C13: a call of a cached query type whose key holds a non-expired entry
\* returns that entry's value, issues no remote query and leaves the cache
\* unchanged.
C13_HitPath ==
  \A p \in Tasks :
    (/\ Finished(p) /\ hist[p].alone
     /\ top[p].fn \in CachedFns
     /\ FoundFresh(p))
      => /\ ret[p] = RetCached(hist[p].pre.cache[CallKey(p)].data)
         /\ ~hist[p].asked
         /\ cache = hist[p].pre.cache

\* A cached empty list has been served, some time after it was stored.
C13_Witness ==
  \E p \in Tasks :
    /\ Finished(p) /\ hist[p].alone
    /\ top[p].fn = "getRelatedWallpapers"
    /\ FoundFresh(p)
    /\ ret[p] = RetList(<<>>)
    /\ hist[p].pre.now > hist[p].pre.cache[CallKey(p)].timestamp

\* ------------------------------------------------------------------ C14
\* C14: a getWallpapersByCategory(categoryId, limit) without cursor that
\* follows a successful one with the same arguments within the listing ttl
\* returns the same result without a remote query.
C14_ListingReadThrough ==
  \A p \in Tasks :
    (/\ Completed(p, "getWallpapersByCategory")
     /\ ~ArgCursor(top[p]).exists
     /\ hist[p].prev.fn = "getWallpapersByCategory"
     /\ hist[p].prev.id = top[p].id
     /\ hist[p].prev.list = top[p].list
     /\ ~hist[p].prev.nerr
     /\ hist[p].pre.now - hist[p].prev.at <= TTL_wallpapers)
      => ~hist[p].asked

\* ------------------------------------------------------------------ C15
ReadFns == CachedFns \cup {"getWallpapersByCategory"}
Neutral(fn) ==
  CASE fn \in ListFns \cup {"searchWallpapers"} -> RetList(<<>>)
    [] fn \in {"getCategoryById", "getWallpaperById"} -> RetData(NoDoc)
    [] fn = "getWallpapersCountByCategory" -> RetCount(0)
    [] fn = "getWallpapersByCategory" -> RetPage(<<>>, NoDoc, FALSE)

\* C15: no read operation of the data service throws, and a read whose
\* remote queries all failed returns its neutral value: the empty list for
\* listings and search, null for by-id lookups, 0 for the count, the empty
\* page with no cursor and hasMore = false for the paginated listing.
C15_ReadFailureSwallowed ==
  \A p \in Tasks :
    (Finished(p) /\ hist[p].alone /\ top[p].fn \in ReadFns)
      => /\ ret[p].kind = "value"
         /\ (hist[p].nerr /\ ~hist[p].nok) => ret[p] = Neutral(top[p].fn)

\* A listing whose query failed has returned the empty list.
C15_Witness ==
  \E p \in Tasks :
    /\ Finished(p) /\ hist[p].alone
    /\ top[p].fn = "getNewWallpapers"
    /\ hist[p].nerr
    /\ ret[p] = RetList(<<>>)

\* ------------------------------------------------------------------ C16
\* A completed fetch of a scroll session: started without cursor, every
\* later fetch given the cursor of the fetch before it, no remote failure.
InSession(p) ==
  /\ Completed(p, "getWallpapersByCategory")
  /\ ~hist[p].nerr
  /\ (~ArgCursor(top[p]).exists \/ Continued(p))
EarlierPages(p) ==
  IF ArgCursor(top[p]).exists
  THEN hist[p].prev.seen \o hist[p].prev.ret.list
  ELSE <<>>
SessionPages(p) == EarlierPages(p) \o ret[p].list
DocIdsIn(docs) == {docs[i].id : i \in 1..Len(docs)}
CategoryItems(c) == {i \in DOMAIN remote : remote[i].exists /\ CategoryOf(i) = c}

\* C16: in a scroll session over a category of N items with page size P,
\* the concatenated pages hold items of the category, none twice; a fetch
\* that reports hasMore has added P >= 1 items, so that the session ends
\* after at most N / P + 1 fetches; and when a fetch reports hasMore = false
\* the pages hold each of the N items exactly once.
C16_PaginationComplete ==
  \A p \in Tasks :
    InSession(p)
      => /\ Cardinality(DocIdsIn(SessionPages(p))) = Len(SessionPages(p))
         /\ DocIdsIn(SessionPages(p)) \subseteq CategoryItems(top[p].id)
         /\ ret[p].b => /\ Len(ret[p].list) = ArgLimit(top[p])
                        /\ Len(ret[p].list) >= 1
         /\ ~ret[p].b => DocIdsIn(SessionPages(p)) = CategoryItems(top[p].id)

\* A session of three fetches has ended with all the items of a category
\* of three, two to a page.
C16_Witness ==
  \E p \in Tasks :
    /\ InSession(p)
    /\ ~ret[p].b
    /\ ArgLimit(top[p]) = 2
    /\ Len(EarlierPages(p)) = 2
    /\ Len(ret[p].list) = 1
    /\ Cardinality(CategoryItems(top[p].id)) = 3

\* ------------------------------------------------------------------ C17
\* C17: on every successful paginated fetch hasMore is true iff the page
\* has limit items. In a scroll session over N items with page size P: when
\* P divides N, a non-empty page that completes the N items reports hasMore
\* and the fetch after it returns the empty page with hasMore = false; when
\* P does not divide N, hasMore is false exactly on the page that completes
\* the N items.
C17_HasMoreIffFullPage ==
  \A p \in Tasks :
    LET N == Cardinality(CategoryItems(top[p].id))
        P == ArgLimit(top[p])
    IN /\ (Completed(p, "getWallpapersByCategory") /\ ~hist[p].nerr)
            => (ret[p].b <=> Len(ret[p].list) = P)
       /\ (InSession(p) /\ N % P = 0)
            => /\ (ret[p].list # <<>> /\ Len(SessionPages(p)) = N) => ret[p].b
               /\ (ArgCursor(top[p]).exists /\ Len(EarlierPages(p)) = N)
                    => (ret[p].list = <<>> /\ ~ret[p].b)
       /\ (InSession(p) /\ N % P # 0)
            => (~ret[p].b <=> Len(SessionPages(p)) = N)

\* After a full last page, the fetch that follows has returned the empty
\* page with hasMore = false.
C17_Witness ==
  \E p \in Tasks :
    /\ InSession(p)
    /\ ArgCursor(top[p]).exists
    /\ hist[p].prev.ret.b
    /\ Len(EarlierPages(p)) = Cardinality(CategoryItems(top[p].id))
    /\ Len(EarlierPages(p)) > 0
    /\ ret[p].list = <<>>
    /\ ~ret[p].b

\* ------------------------------------------------------------------ C18
\* a is listed after b: older, or as old with a smaller document name
ListedAfter(a, b) ==
  \/ CreatedAt(a) < CreatedAt(b)
  \/ CreatedAt(a) = CreatedAt(b) /\ StrLess(a, b)

\* C18: a successful getWallpapersByCategory given a cursor returns only
\* items listed after the cursor's item, beginning with the first such item
\* of the category, and in a scroll session it returns no item of an
\* earlier page.
C18_CursorForwardOnly ==
  \A p \in Tasks :
    (/\ Completed(p, "getWallpapersByCategory")
     /\ ~hist[p].nerr
     /\ ArgCursor(top[p]).exists)
      => LET lastDoc == ArgCursor(top[p]).id
             later == {i \in CategoryItems(top[p].id) : ListedAfter(i, lastDoc)}
         IN /\ DocIdsIn(ret[p].list) \subseteq later
            /\ \A i \in later \ DocIdsIn(ret[p].list) :
                 \A j \in DocIdsIn(ret[p].list) : ListedAfter(i, j)
            /\ (later # {}) => ret[p].list # <<>>
            /\ InSession(p)
                 => DocIdsIn(ret[p].list) \cap DocIdsIn(EarlierPages(p)) = {}

\* The second page of a session has been returned, after the first.
C18_Witness ==
  \E p \in Tasks :
    /\ InSession(p)
    /\ ArgCursor(top[p]).exists
    /\ ret[p].list # <<>>
    /\ EarlierPages(p) # <<>>

\* ------------------------------------------------------------------ C19
\* C19: the result of searchWallpapers holds each item identifier at most
\* once and at most limitCount items, every item coming from one of the two
\* fulfilled queries, and for an identifier returned by both queries it
\* carries the by-tag record.
C19_SearchMerge ==
  [][\A p \in Tasks :
       SearchWallpapersResume(p)
         => LET byTitle == IF io[p].st = "ok" THEN io[p].list ELSE <<>>
                byTag == IF io[p].st2 = "ok" THEN io[p].list2 ELSE <<>>
                data == ret'[p].list
            IN /\ Cardinality(DocIdsIn(data)) = Len(data)
               /\ Len(data) <= ArgLimit(top[p])
               /\ \A i \in 1..Len(data) :
                    IF data[i].id \in DocIdsIn(byTag)
                    THEN \E j \in 1..Len(byTag) : byTag[j] = data[i]
                    ELSE \E j \in 1..Len(byTitle) : byTitle[j] = data[i]]_vars

\* A search has returned the by-tag record of an item whose by-title record
\* was older.
C19_Witness ==
  \E p \in Tasks :
    /\ Finished(p)
    /\ top[p].fn = "searchWallpapers"
    /\ hist[p].dup
    /\ \E i \in 1..Len(ret[p].list) : ret[p].list[i].downloads > 0

\* ------------------------------------------------------------------ C20
\* C20: both queries of a search are in flight or settled whenever the
\* search is suspended, and when exactly one of them was rejected the search
\* returns, without throwing, the results of the other truncated to
\* limitCount.
C20_SearchFailureIsolation ==
  /\ [](\A p \in Tasks :
          At(p, "searchWallpapers", "await")
            => io[p].st # "none" /\ io[p].st2 # "none")
  /\ [][\A p \in Tasks :
          SearchWallpapersResume(p)
            => /\ (io[p].st = "err" /\ io[p].st2 = "ok")
                    => ret'[p] = RetList(Take(io[p].list2, ArgLimit(top[p])))
               /\ (io[p].st = "ok" /\ io[p].st2 = "err")
                    => ret'[p] = RetList(Take(io[p].list, ArgLimit(top[p])))]_vars

\* A search with one of its queries rejected has returned, and stored, the
\* items found by the other.
C20_Witness ==
  \E p \in Tasks :
    /\ Finished(p)
    /\ top[p].fn = "searchWallpapers"
    /\ hist[p].nerr /\ hist[p].nok
    /\ ret[p].list # <<>>
    /\ CallKey(p) \in DOMAIN cache
    /\ cache[CallKey(p)].data.list = ret[p].list

\* ------------------------------------------------------------------ C21
\* the mirror the call found was set and less than CACHE_DURATION old
FoundMirrorFresh(p) ==
  /\ ~hist[p].pre.mirror.isNull
  /\ hist[p].pre.now - hist[p].pre.ts < CACHE_DURATION

\* C21: getFavorites() issues no storage read and returns the mirror, which
\* it leaves as it is, iff the mirror is set and now - cacheTimestamp < 5
\* minutes; otherwise it reads persistent storage, and with the list it read
\* it refreshes the mirror, stamped with the time of the call. So the
\* getFavorites() that follows invalidateCache() reads persistent storage.
C21_MirrorOrStorage ==
  \A p \in Tasks :
    Completed(p, "getFavorites")
      => /\ hist[p].read <=> ~FoundMirrorFresh(p)
         /\ FoundMirrorFresh(p)
              => /\ ret[p] = RetList(hist[p].pre.mirror.v)
                 /\ favoritesCache = hist[p].pre.mirror
                 /\ cacheTimestamp = hist[p].pre.ts
         /\ (~FoundMirrorFresh(p) /\ ~hist[p].rerr)
              => /\ ret[p] = RetList(PreList(p))
                 /\ favoritesCache = Mirror(PreList(p))
                 /\ cacheTimestamp = hist[p].pre.now
         /\ Persisted = hist[p].pre.blob

\* After invalidateCache() dropped the mirror of a non-empty persisted list,
\* getFavorites() has read the list from storage and set the mirror again.
C21_Witness ==
  \E p \in Tasks :
    /\ Completed(p, "getFavorites")
    /\ hist[p].pre.mirror.isNull
    /\ PreList(p) # << >>
    /\ hist[p].read
    /\ ret[p] = RetList(PreList(p))
    /\ favoritesCache = Mirror(PreList(p))

\* ------------------------------------------------------------------ C22
\* the state a successful clearFavorites() leaves
Cleared(blob, mirror) == blob = NoBlob /\ mirror = Mirror(<< >>)

\* C22: a successful clearFavorites() leaves nothing persisted and the
\* mirror at the empty list; and a getFavorites(), isFavorite(id) or
\* removeFavorite(id) that starts in that state returns [], false and true,
\* and leaves that state as it is, so that they do until the next add.
C22_ClearedUntilNextAdd ==
  \A p \in Tasks :
    /\ OkCall(p, "clearFavorites")
         => /\ Cleared(Persisted, favoritesCache)
            /\ cacheTimestamp >= hist[p].pre.now
    /\ (/\ Finished(p) /\ hist[p].alone
        /\ top[p].fn \in {"getFavorites", "isFavorite", "removeFavorite"}
        /\ Cleared(hist[p].pre.blob, hist[p].pre.mirror))
         => /\ Cleared(Persisted, favoritesCache)
            /\ ret[p] = CASE top[p].fn = "getFavorites" -> RetList(<< >>)
                          [] top[p].fn = "isFavorite" -> RetBool(FALSE)
                          [] top[p].fn = "removeFavorite" -> RetBool(TRUE)

\* isFavorite(id) has returned false right after a clearFavorites() that
\* erased a list holding id.
C22_Witness ==
  \E p \in Tasks :
    /\ Completed(p, "isFavorite")
    /\ hist[p].prev.fn = "clearFavorites"
    /\ Includes(ParseOrEmpty(hist[p].prev.blob), top[p].id)
    /\ Cleared(hist[p].pre.blob, hist[p].pre.mirror)
    /\ ret[p] = RetBool(FALSE)

\* ------------------------------------------------------------------ C23
\* no cancelDownload call is under way
NoCancelRunning ==
  \A q \in Tasks : ~(Running(q) /\ top[q].fn = "cancelDownload")

\* C23: a downloadWallpaper call during which cancelDownload() acted never
\* calls onSuccess nor incrementDownloadCount, and once it and the
\* cancelDownload calls have returned the download state has
\* isDownloading = false, progress = 0 and downloadId = null.
C23_CancelledNeverSucceeds ==
  \A p \in Tasks :
    report[p].cancelled
      => /\ ~report[p].success
         /\ ~report[p].counted
         /\ (~Running(p) /\ NoCancelRunning)
              => /\ ~downloadState.isDownloading
                 /\ downloadState.progress = 0
                 /\ downloadState.downloadId = NoDownload

\* ------------------------------------------------------------------ C30
\* C30: at most one transfer is running at any time, and at most one
\* downloadWallpaper call has set the download state and not yet returned:
\* a call made while an earlier one is under way starts no second transfer.
C30_OneDownloadInFlight ==
  /\ Cardinality({p \in Tasks : transfer[p] = "running"}) <= 1
  /\ Cardinality(UnderWay) <= 1

\* ------------------------------------------------------------------ C24
\* C24: a getWallpaperById call that finds no fresh entry under its key
\* suspends on a remote read of its own, whatever reads of that key are
\* already in flight, and every call whose read returns the document stores
\* it under the key, so that the cache holds what the last of them stored.
C24_NoCoalescing ==
  [][\A p \in Tasks :
       /\ (/\ GetWallpaperByIdEnter(p)
           /\ ~CacheHit(cache, WallpaperKey(top[p].id), now))
            => (/\ At(p, "getWallpaperById", "await")'
                /\ io'[p] = ReqDoc("getDoc", top[p].id))
       /\ (GetWallpaperByIdResume(p) /\ io[p].st = "ok" /\ io[p].data.exists)
            => cache'[WallpaperKey(top[p].id)]
                 = [data |-> DocPayload(io[p].data), timestamp |-> now,
                    ttl |-> TTL_wallpapers]]_vars

\* Two calls for one key have each read the remote document, one before
\* and one after an update, and the cache holds what the one that read
\* first stored last.
C24_Witness ==
  \E p, q \in Tasks :
    /\ p # q
    /\ Finished(p) /\ Finished(q)
    /\ top[p] = top[q]
    /\ top[p].fn = "getWallpaperById"
    /\ ret[p].data.exists /\ ret[q].data.exists
    /\ ret[p].data # ret[q].data
    /\ ret[q].data = remote[top[q].id]
    /\ cache[WallpaperKey(top[p].id)].data = DocPayload(ret[p].data)

\* ------------------------------------------------------------------ C27
\* an increment of the counters of id is under way
Incrementing(id) ==
  \E q \in Tasks : Running(q) /\ IsIncrement(top[q].fn) /\ top[q].id = id

\* C27: a getWallpaperById(id) served from the cache while no increment of
\* id is under way returns the item as the remote store holds it: once an
\* increment has updated the remote item and invalidated the cache, no
\* pre-update data is served, whatever reads were in flight at the update.
C27_InvalidationNotUndone ==
  [][\A p \in Tasks :
       (/\ GetWallpaperByIdEnter(p)
        /\ CacheHit(cache, WallpaperKey(top[p].id), now)
        /\ ~Incrementing(top[p].id))
         => ret'[p].data = remote[top[p].id]]_vars

\* ------------------------------------------------------------------ C25
\* C25: when two toggleFavorite calls for distinct ids have overlapped and
\* both returned successfully, the persisted list holds each of the two ids
\* iff its call reported isFavorite = true, and the mirror is the persisted
\* list.
C25_NoLostUpdate ==
  \A p, q \in Tasks :
    (/\ p # q
     /\ Finished(p) /\ Finished(q)
     /\ top[p].fn = "toggleFavorite" /\ top[q].fn = "toggleFavorite"
     /\ top[p].id # top[q].id
     /\ ret[p].kind = "value" /\ ret[q].kind = "value")
      => /\ Includes(PersistedList, top[p].id) = ret[p].b
         /\ Includes(PersistedList, top[q].id) = ret[q].b
         /\ favoritesCache = Mirror(PersistedList)

\* ------------------------------------------------------------------ C26
\* C26: after a successful toggleFavorite(id) the persisted list without id
\* is the list persisted before the call without id: the other identifiers
\* are kept in their order and none is added, a failed storage read or not.
C26_OnlyIdChanges ==
  \A p \in Tasks :
    OkCall(p, "toggleFavorite")
      => Without(PersistedList, top[p].id) = Without(PreList(p), top[p].id)

\* ------------------------------------------------------------------ C28
\* C28: a read of a cached query type whose remote queries all failed has
\* left no entry under its key and every other entry as it was, search
\* with both of its queries rejected included.
C28_FailedFetchNotCached ==
  \A p \in Tasks :
    (/\ Finished(p) /\ hist[p].alone
     /\ top[p].fn \in CachedFns
     /\ hist[p].nerr /\ ~hist[p].nok)
      => /\ CallKey(p) \notin DOMAIN cache
         /\ DOMAIN cache = DOMAIN hist[p].pre.cache \ {CallKey(p)}
         /\ \A k \in DOMAIN cache : cache[k] = hist[p].pre.cache[k]

\* ------------------------------------------------------------------ C29
\* C29: an entry leaves the cache map only by a get on its own key once its
\* ttl has passed, by an invalidate whose pattern its key contains, or by a
\* clear; until then it is counted by getCacheStats, however long its ttl
\* has passed, and it changes only by a set on its key. So a get on an
\* expired key removes that entry and no other.
C29_LazyEviction ==
  [][\A k \in DOMAIN cache :
       /\ k \in GetCacheStats(cache).keys
       /\ k \notin DOMAIN cache'
            => \/ CacheUtilsGet(k) /\ now - cache[k].timestamp > cache[k].ttl
               \/ \E pattern \in InvalidatePatterns :
                    /\ InvalidateCache(pattern)
                    /\ OccursIn(pattern, k)
       /\ (k \in DOMAIN cache' /\ cache'[k] # cache[k])
            => \E v \in UtilValues, ttl \in CacheTtls : CacheUtilsSet(k, v, ttl)
       /\ GetCacheStats(cache').size
            >= GetCacheStats(cache).size
                 - (IF probe'.op = "invalidate" THEN Cardinality(DOMAIN cache)
                    ELSE 1)]_vars

\* A get has removed the expired entry of its key and left another expired
\* entry in the map, where getCacheStats counts it.
C29_Witness ==
  /\ probe.op = "get"
  /\ probe.removed = {probe.key}
  /\ \E k \in DOMAIN cache :
       /\ now - cache[k].timestamp > cache[k].ttl
       /\ k \in GetCacheStats(cache).keys
  /\ GetCacheStats(cache).size = 1

============================================================================
